---- MODULE Spec2Model ----
(***************************************************************************)
(* A model of the APK Finder server: the incremental scanner               *)
(* (server/src/scanner.py), the Redis catalog store                        *)
(* (server/src/redis_client.py), the SMB share client                      *)
(* (server/src/smb_client.py) and the download endpoint                    *)
(* (server/src/api.py).                                                    *)
(*                                                                         *)
(* Python strings are sequences of one-character strings, so that split,   *)
(* strip, lower, startswith and the substring test are computed, not       *)
(* assumed.  Wall-clock values (datetime.now()) are the single token Now.  *)
(***************************************************************************)
EXTENDS Integers, Sequences, FiniteSets, TLC

VARIABLES
    remote,     \* per server: the share's tree (directories and files, share-relative)
    store,      \* the Redis database: key -> hash (field -> value)
    scanning,   \* APKScanner.scanning
    scan_lock,  \* APKScanner.scan_lock: the thread holding it, or None
    th,         \* per scanner thread: position and local variables
    changes,    \* number of changes made to the remote shares so far
    dl,         \* the download request being served and its response
    search,     \* the search request last answered and its response
    handlers,   \* the download handlers running on the event loop
    fault,      \* what fails on the remote share while a download is served
    strm,       \* the stream of download_file_stream_smbclient being consumed
    env,        \* which shares and directories fail or hang, and whether Redis is down
    req         \* the API request being handled

vars ==
    <<remote, store, scanning, scan_lock, th, changes, dl, search, handlers, fault, strm,
      env, req>>

None == "None"
Now == "now"

(***************************************************************************)
(* Bounds of the model.                                                    *)
(***************************************************************************)
MaxRemoteChanges == 1
MaxDownloads == 1

(***************************************************************************)
(* String helpers (Python str methods).                                    *)
(***************************************************************************)
BS == "\\"

UpperChars == <<"A","B","C","D","E","F","G","H","I","J","K","L","M",
                "N","O","P","Q","R","S","T","U","V","W","X","Y","Z">>
LowerChars == <<"a","b","c","d","e","f","g","h","i","j","k","l","m",
                "n","o","p","q","r","s","t","u","v","w","x","y","z">>

LowerChar(c) ==
    IF \E i \in 1..26 : UpperChars[i] = c
    THEN LowerChars[CHOOSE i \in 1..26 : UpperChars[i] = c]
    ELSE c

Lower(s) == [i \in 1..Len(s) |-> LowerChar(s[i])]

StartsWith(s, p) == Len(p) <= Len(s) /\ SubSeq(s, 1, Len(p)) = p

EndsWith(s, p) == Len(p) <= Len(s) /\ SubSeq(s, Len(s) - Len(p) + 1, Len(s)) = p

\* Python's `p in s`
Contains(s, p) ==
    \E i \in 1..(Len(s) - Len(p) + 1) : SubSeq(s, i, i + Len(p) - 1) = p

\* Python's s.split(sep) for a one-character separator
RECURSIVE Split(_, _)
Split(s, sep) ==
    IF \A i \in 1..Len(s) : s[i] # sep
    THEN <<s>>
    ELSE LET i == CHOOSE k \in 1..Len(s) :
                      s[k] = sep /\ \A j \in 1..(k - 1) : s[j] # sep
         IN  <<SubSeq(s, 1, i - 1)>> \o Split(SubSeq(s, i + 1, Len(s)), sep)

Last(s) == s[Len(s)]

(***************************************************************************)
(* Names used by the model's shares.                                       *)
(***************************************************************************)
S_apks == <<"a","p","k","s">>
S_AppA == <<"A","p","p","A">>
S_AppB == <<"A","p","p","B">>
S_AppC == <<"A","p","p","C">>
S_sub == <<"s","u","b">>
S_new == <<"n","e","w">>
S_release_apk == <<"r","e","l","e","a","s","e",".","a","p","k">>
S_debug_apk == <<"d","e","b","u","g",".","a","p","k">>
S_x_APK == <<"x",".","A","P","K">>
S_n_txt == <<"n",".","t","x","t">>
S_server_1 == <<"s","e","r","v","e","r","_","1">>
S_server_2 == <<"s","e","r","v","e","r","_","2">>
S_release == <<"r","e","l","e","a","s","e">>
S_DEBUG == <<"D","E","B","U","G">>
S_Debug_RELEASE_apk == <<"D","e","b","u","g","-","R","E","L","E","A","S","E",".","a","p","k">>
S_app_DEBUG_apk == <<"a","p","p","-","D","E","B","U","G",".","a","p","k">>
S_releas_debu_apk == <<"r","e","l","e","a","s","-","d","e","b","u",".","a","p","k">>
S_re_lease_APK == <<"r","e","-","l","e","a","s","e",".","A","P","K">>
S_debug == <<"d","e","b","u","g">>
S_unknown == <<"u","n","k","n","o","w","n">>
S_dot_apk == <<".","a","p","k">>
S_files == <<"f","i","l","e","s">>
S_last_updated == <<"l","a","s","t","_","u","p","d","a","t","e","d">>
S_apk_finder == <<"a","p","k","_","f","i","n","d","e","r">>
S_meta == <<"m","e","t","a">>

(***************************************************************************)
(* Config.FILE_SERVERS: server_<i> -> {"path": ...}, in insertion order.   *)
(***************************************************************************)
FILE_SERVERS == <<S_server_1, S_server_2>>

ServerSet == {FILE_SERVERS[i] : i \in 1..Len(FILE_SERVERS)}

\* the "path" of a server's configuration: \\h1\s1\apks and \\h2\s2\apks
ConfigPath(server) ==
    IF server = S_server_1
    THEN <<BS, BS, "h", "1", BS, "s", "1", BS>> \o S_apks
    ELSE <<BS, BS, "h", "2", BS, "s", "2", BS>> \o S_apks

\* self.server_config["path"].split("\\")[-1]
BasePath(server) == Last(Split(ConfigPath(server), BS))

(***************************************************************************)
(* The remote share.  A share's tree is a set of directories and a set of  *)
(* files, each a share-relative path given as its sequence of components.  *)
(***************************************************************************)
\* the path a name opened on the tree denotes; "" is the share's root
PathOf(name) == IF name = <<>> THEN <<>> ELSE Split(name, BS)

\* the order in which a directory query returns the entries it holds
ListingOrder == <<S_release_apk, S_sub, S_debug_apk, S_new, S_x_APK, S_n_txt,
                  S_AppA, S_AppB, S_AppC, S_apks,
                  S_Debug_RELEASE_apk, S_app_DEBUG_apk, S_releas_debu_apk,
                  S_re_lease_APK, S_release, S_DEBUG, S_meta>>

\* the attributes a directory entry carries for a file (end_of_file, creation_time)
EndOfFile(file_name) ==
    CASE file_name = S_release_apk -> 5
      [] file_name = S_debug_apk -> 6
      [] OTHER -> 3

CreationTime(file_name) ==
    CASE file_name = S_release_apk -> 2
      [] file_name = S_debug_apk -> 1
      [] OTHER -> 1

\* two shares holding three top-level directories
InitRemote ==
    [server \in ServerSet |->
        IF server = S_server_1
        THEN [dirs |-> {<<>>, <<S_apks>>, <<S_apks, S_AppA>>, <<S_apks, S_AppB>>,
                        <<S_apks, S_AppA, S_sub>>},
              files |-> {<<S_apks, S_AppA, S_release_apk>>,
                         <<S_apks, S_AppA, S_sub, S_debug_apk>>,
                         <<S_apks, S_AppB, S_x_APK>>,
                         <<S_apks, S_AppB, S_n_txt>>}]
        ELSE [dirs |-> {<<>>, <<S_apks>>, <<S_apks, S_AppC>>},
              files |-> {<<S_apks, S_AppC, S_release_apk>>}]]

\* what may appear on and disappear from a share while the server runs
ChangingDirs(server) ==
    IF server = S_server_1
    THEN {<<S_apks, S_AppA, S_sub>>, <<S_apks, S_AppA, S_new>>}
    ELSE {<<S_apks, S_AppC, S_new>>}

ChangingFiles(server) ==
    IF server = S_server_1
    THEN {<<S_apks, S_AppA, S_sub, S_debug_apk>>, <<S_apks, S_AppA, S_debug_apk>>}
    ELSE {}

IsPrefix(p, q) == Len(p) <= Len(q) /\ SubSeq(q, 1, Len(p)) = p

\* the entries of directory p, in listing order
Entries(server, p) ==
    SelectSeq(ListingOrder,
              LAMBDA n : Append(p, n) \in remote[server].dirs \cup remote[server].files)


(***************************************************************************)
(* shared/utils.py                                                         *)
(***************************************************************************)
is_apk_file(filename) == EndsWith(Lower(filename), S_dot_apk)

\* faulty variant: 'debug' is looked for first
extract_build_type_DebugFirst(filename) ==
    IF Contains(Lower(filename), S_debug) THEN S_debug
    ELSE IF Contains(Lower(filename), S_release) THEN S_release
    ELSE S_unknown

extract_build_type(filename) ==
    IF Contains(Lower(filename), S_release) THEN S_release
    ELSE IF Contains(Lower(filename), S_debug) THEN S_debug
    ELSE S_unknown

(***************************************************************************)
(* SMBClient (smb_client.py): directory listing and the recursive walk.    *)
(***************************************************************************)
JoinBS(a, b) == a \o <<BS>> \o b

\* the name list_directories opens for `path`
ListFullPath(server, path) ==
    LET base_path == BasePath(server)
    IN  IF base_path # <<>> /\ ~StartsWith(path, base_path)
        THEN (IF path # <<>> THEN JoinBS(base_path, path) ELSE base_path)
        ELSE path

\* SMBClient.list_directories: the names of the sub-directories of `path`;
\* a directory that cannot be opened gives [] (the except branch)
list_directories(server, path) ==
    LET p == PathOf(ListFullPath(server, path))
    IN  IF p \notin remote[server].dirs
        THEN <<>>
        ELSE SelectSeq(Entries(server, p),
                       LAMBDA n : Append(p, n) \in remote[server].dirs)

\* SMBClient.get_directory_file_count
get_directory_file_count(server, path) == Len(list_directories(server, path))

\* the APKFile built for a file entry
NewAPKFile(server, entry_path, file_name) ==
    [relative_path |-> <<BS>> \o entry_path,
     file_name |-> file_name,
     file_size |-> EndOfFile(file_name),
     created_time |-> CreationTime(file_name),
     server_prefix |-> ConfigPath(server),
     build_type |-> extract_build_type(file_name),
     download_time |-> 0,
     md5 |-> None]

\* SMBClient._scan_directory_recursive, and its loop over the entries
RECURSIVE ScanDirectoryRecursive(_, _, _)
RECURSIVE ScanEntries(_, _, _, _)
ScanEntries(server, path, entries, apk_files) ==
    IF entries = <<>> THEN apk_files
    ELSE LET file_name == Head(entries)
             entry_path == IF path # <<>> THEN JoinBS(path, file_name) ELSE file_name
             full == PathOf(JoinBS(BasePath(server), entry_path))
             found == IF full \in remote[server].dirs
                      THEN ScanDirectoryRecursive(server, entry_path, apk_files)
                      ELSE IF is_apk_file(file_name)
                      THEN Append(apk_files, NewAPKFile(server, entry_path, file_name))
                      ELSE apk_files
         IN  ScanEntries(server, path, Tail(entries), found)

ScanDirectoryRecursive(server, path, apk_files) ==
    LET base_path == BasePath(server)
        full_path == IF path # <<>> THEN JoinBS(base_path, path) ELSE base_path
        p == PathOf(full_path)
    IN  IF p \notin remote[server].dirs
        THEN apk_files
        ELSE ScanEntries(server, path, Entries(server, p), apk_files)

\* SMBClient.scan_apk_files
scan_apk_files(server, directory) == ScanDirectoryRecursive(server, directory, <<>>)

(***************************************************************************)
(* RedisClient (redis_client.py) over the store.                           *)
(***************************************************************************)
\* faulty variant: one bucket for a whole share
FilesKey_PerShare(server_name, directory) ==
    S_apk_finder \o <<":">> \o server_name \o <<":">> \o S_files

\* key = f"apk_finder:{server_name}:{directory}"
FilesKey(server_name, directory) ==
    S_apk_finder \o <<":">> \o server_name \o <<":">> \o directory

MetaKey(server_name) == S_apk_finder \o <<":">> \o server_name \o <<":">> \o S_meta

\* redis hget / hset
HHas(st, key, field) == key \in DOMAIN st /\ field \in DOMAIN st[key]

HGet(st, key, field) == IF HHas(st, key, field) THEN st[key][field] ELSE None

HSet(st, key, field, value) ==
    LET old == IF key \in DOMAIN st THEN st[key] ELSE <<>>
        new == [f \in DOMAIN old \cup {field} |-> IF f = field THEN value ELSE old[f]]
    IN  [k \in DOMAIN st \cup {key} |-> IF k = key THEN new ELSE st[k]]

\* every operation catches the error of a store that cannot be reached: a
\* read then answers as for a missing entry and a write is dropped
get_apk_files(st, server_name, directory) ==
    IF ~env.redis_down /\ HHas(st, FilesKey(server_name, directory), S_files)
    THEN HGet(st, FilesKey(server_name, directory), S_files)
    ELSE <<>>

set_apk_files(st, server_name, directory, files) ==
    IF env.redis_down THEN st
    ELSE HSet(HSet(st, FilesKey(server_name, directory), S_files, files),
              FilesKey(server_name, directory), S_last_updated, Now)

\* a missing entry reads as the empty dict: the caller tests `if cached_meta`,
\* which None and {} fail alike
get_directory_meta(st, server_name, directory) ==
    IF ~env.redis_down /\ HHas(st, MetaKey(server_name), directory)
    THEN HGet(st, MetaKey(server_name), directory)
    ELSE <<>>

set_directory_meta(st, server_name, directory, meta) ==
    IF env.redis_down THEN st
    ELSE HSet(st, MetaKey(server_name), directory, meta)

\* faulty variants: every record of the bucket is counted; the count is set
\* to one instead of raised by one
increment_download_count_Bucket(st, server_name, directory, file_path) ==
    LET files == get_apk_files(st, server_name, directory)
    IN  set_apk_files(st, server_name, directory,
                      [i \in 1..Len(files) |-> [files[i] EXCEPT !.download_time = @ + 1]])

increment_download_count_SetOne(st, server_name, directory, file_path) ==
    LET files == get_apk_files(st, server_name, directory)
    IN  set_apk_files(st, server_name, directory,
                      [i \in 1..Len(files) |->
                          IF files[i].relative_path = file_path
                          THEN [files[i] EXCEPT !.download_time = 1]
                          ELSE files[i]])

\* the loop of increment_download_count over the list it read: the first
\* record with the path is counted
Bumped(files, file_path) ==
    LET hit == {i \in 1..Len(files) : files[i].relative_path = file_path}
        first == IF hit = {} THEN 0 ELSE CHOOSE i \in hit : \A j \in hit : i <= j
    IN  [i \in 1..Len(files) |->
            IF i = first
            THEN [files[i] EXCEPT !.download_time = @ + 1]
            ELSE files[i]]

\* RedisClient.increment_download_count, nothing else touching the store
\* between its read and its write
increment_download_count(st, server_name, directory, file_path) ==
    set_apk_files(st, server_name, directory,
                  Bumped(get_apk_files(st, server_name, directory), file_path))

\* RedisClient.update_file_md5: the first record with the path gets the hash
update_file_md5(st, server_name, directory, file_path, md5) ==
    LET files == get_apk_files(st, server_name, directory)
        hit == {i \in 1..Len(files) : files[i].relative_path = file_path}
        first == IF hit = {} THEN 0 ELSE CHOOSE i \in hit : \A j \in hit : i <= j
    IN  set_apk_files(st, server_name, directory,
                      [i \in 1..Len(files) |->
                          IF i = first THEN [files[i] EXCEPT !.md5 = md5] ELSE files[i]])

(***************************************************************************)
(* APKScanner (scanner.py).  The threads that can run a scan: the          *)
(* scheduler's periodic job, the initial-scan thread of start(), and a     *)
(* background task of POST /api/refresh.                                   *)
(***************************************************************************)
\* every share answers and Redis is up
NoEnv == [noconnect |-> {}, nolist |-> {}, bad |-> {}, hung |-> {}, redis_down |-> FALSE]

\* smb_manager.get_client(server_name) raises ConnectionError
ConnectFails(server) == server \in env.noconnect

\* client.list_directories(""): [] when the listing of the root fails
RootDirectories(server) ==
    IF server \in env.nolist THEN <<>> ELSE list_directories(server, <<>>)

\* the listing of directory fails inside the client, which answers 0
\* sub-directories and no files
DirectoryFails(server, directory) == <<server, directory>> \in env.bad

Threads == DOMAIN th

NServers == Len(FILE_SERVERS)

IdleLocals ==
    [pc |-> "idle", op |-> None, si |-> 0, dirs |-> <<>>, cur |-> 0, apks |-> <<>>,
     pending |-> {}, skip |-> FALSE, queued |-> FALSE, raised |-> FALSE]

Server(t) == FILE_SERVERS[th[t].si]
Directory(t) == Head(th[t].dirs)

\* faulty variants of the change test: the cached file count is compared;
\* only a grown count is a change
CachedCount_FilesCount(cached_meta) ==
    IF "files_count" \in DOMAIN cached_meta THEN cached_meta.files_count ELSE -1

\* cached_meta.get("subdir_count", -1) if cached_meta else -1
CachedCount(cached_meta) ==
    IF "subdir_count" \in DOMAIN cached_meta THEN cached_meta.subdir_count ELSE -1

ScanNeeded_OnlyGrowth(current_count, cached_count) == current_count > cached_count

\* the negation of scan_directory's skip test
ScanNeeded(current_count, cached_count) ==
    ~(current_count = cached_count /\ cached_count # -1)

\* the pcs at which a thread is inside scan_server
InScanServer == {"ss_list", "sd_check", "sd_walk", "sd_setfiles", "sd_setmeta"}

\* scan_server has returned to its caller
AfterScanServer(r) ==
    IF r.op = "force_scan_server"
    THEN [r EXCEPT !.pc = "done", !.dirs = <<>>, !.cur = 0, !.apks = <<>>]
    ELSE IF r.si < NServers
    THEN [r EXCEPT !.pc = "ss_list", !.si = @ + 1, !.dirs = <<>>, !.cur = 0,
                   !.apks = <<>>]
    ELSE [r EXCEPT !.pc = "sas_clearflag", !.dirs = <<>>, !.cur = 0, !.apks = <<>>]

\* faulty variant: the error of one share ends the scan of all servers
OnConnectError_Abort(r) ==
    [r EXCEPT !.pc = "sas_clearflag", !.dirs = <<>>, !.cur = 0, !.apks = <<>>]

\* scan_server: except Exception around get_client and the loop
OnConnectError(r) == AfterScanServer(r)

\* scan_directory has returned: the loop of scan_server goes on
NextDirectory(r) ==
    IF Tail(r.dirs) = <<>>
    THEN AfterScanServer(r)
    ELSE [r EXCEPT !.pc = "sd_check", !.dirs = Tail(@), !.cur = 0, !.apks = <<>>]

\* the loop clearing the cached metadata of one server has ended
AfterClear(r) ==
    IF r.op = "force_scan_server"
    THEN [r EXCEPT !.pc = "ss_list", !.dirs = <<>>]
    ELSE IF r.si < NServers
    THEN [r EXCEPT !.pc = "clr_list", !.si = @ + 1, !.dirs = <<>>]
    ELSE [r EXCEPT !.pc = "sas_check", !.si = 0, !.dirs = <<>>]

\* the scheduler runs the periodic job (one instance at a time)
StartPeriodic ==
    /\ \E t \in Threads \cap {"periodic", "worker"} :
          /\ th[t].pc = "idle"
          /\ th' = [th EXCEPT ![t] =
                       [IdleLocals EXCEPT !.pc = "sas_check", !.op = "scan_all_servers"]]
    /\ UNCHANGED <<remote, store, scanning, scan_lock, changes, dl, search, handlers, fault, strm, env, req>>

\* POST /api/refresh without a server: force_scan_all
StartForceAll ==
    /\ \E t \in Threads \cap {"api", "worker"} :
          /\ th[t].pc = "idle"
          /\ th' = [th EXCEPT ![t] =
                       [IdleLocals EXCEPT !.pc = "clr_list", !.op = "force_scan_all",
                                          !.si = 1]]
    /\ UNCHANGED <<remote, store, scanning, scan_lock, changes, dl, search, handlers, fault, strm, env, req>>

\* POST /api/refresh?server=...: force_scan_server
StartForceServer ==
    /\ \E t \in Threads \cap {"api", "worker"}, i \in 1..NServers :
          /\ th[t].pc = "idle"
          /\ th' = [th EXCEPT ![t] =
                       [IdleLocals EXCEPT !.pc = "clr_list", !.op = "force_scan_server",
                                          !.si = i]]
    /\ UNCHANGED <<remote, store, scanning, scan_lock, changes, dl, search, handlers, fault, strm, env, req>>

\* force_scan_*: directories = client.list_directories("")
ClearList(t) ==
    /\ th[t].pc = "clr_list"
    /\ Server(t) \notin env.hung
    /\ LET directories == RootDirectories(Server(t))
       IN  th' = [th EXCEPT ![t] =
                     IF ConnectFails(Server(t))
                     THEN IF @.op = "force_scan_server"
                          THEN [@ EXCEPT !.pc = "done", !.raised = TRUE]
                          ELSE AfterClear(@)
                     ELSE IF directories = <<>>
                     THEN AfterClear(@)
                     ELSE [@ EXCEPT !.pc = "clr_set", !.dirs = directories]]
    /\ UNCHANGED <<remote, store, scanning, scan_lock, changes, dl, search, handlers, fault, strm, env, req>>

\* force_scan_*: set_directory_meta(server_name, directory, {"subdir_count": -1})
ClearSet(t) ==
    /\ th[t].pc = "clr_set"
    /\ store' = set_directory_meta(store, Server(t), Directory(t), [subdir_count |-> -1])
    /\ LET r == [th[t] EXCEPT !.pending = @ \cup {<<Server(t), Directory(t)>>}]
       IN  th' = [th EXCEPT ![t] =
                     IF Tail(r.dirs) = <<>>
                     THEN AfterClear(r)
                     ELSE [r EXCEPT !.dirs = Tail(@)]]
    /\ UNCHANGED <<remote, scanning, scan_lock, changes, dl, search, handlers, fault, strm, env, req>>

\* scan_all_servers: if self.scanning: return
ScanAllCheck(t) ==
    /\ th[t].pc = "sas_check"
    /\ th' = [th EXCEPT ![t] =
                 IF scanning
                 THEN [@ EXCEPT !.pc = "done"]
                 ELSE [@ EXCEPT !.pc = "sas_acquire", !.queued = (scan_lock # None)]]
    /\ UNCHANGED <<remote, store, scanning, scan_lock, changes, dl, search, handlers, fault, strm, env, req>>

\* scan_all_servers: with self.scan_lock
ScanAllAcquire(t) ==
    /\ th[t].pc = "sas_acquire"
    /\ scan_lock = None
    /\ scan_lock' = t
    /\ th' = [th EXCEPT ![t].pc = "sas_setflag"]
    /\ UNCHANGED <<remote, store, scanning, changes, dl, search, handlers, fault, strm, env, req>>

\* scan_all_servers: self.scanning = True
ScanAllSetFlag(t) ==
    /\ th[t].pc = "sas_setflag"
    /\ scanning' = TRUE
    /\ th' = [th EXCEPT ![t].pc = "ss_list", ![t].si = 1]
    /\ UNCHANGED <<remote, store, scan_lock, changes, dl, search, handlers, fault, strm, env, req>>

\* scan_server: directories = client.list_directories("")
ScanServerList(t) ==
    /\ th[t].pc = "ss_list"
    /\ Server(t) \notin env.hung
    /\ LET directories == RootDirectories(Server(t))
       IN  th' = [th EXCEPT ![t] =
                     IF ConnectFails(Server(t)) THEN OnConnectError(@)
                     ELSE IF directories = <<>> THEN AfterScanServer(@)
                     ELSE [@ EXCEPT !.pc = "sd_check", !.dirs = directories]]
    /\ UNCHANGED <<remote, store, scanning, scan_lock, changes, dl, search, handlers, fault, strm, env, req>>

\* scan_directory: the counts are read and compared
ScanDirectoryCheck(t) ==
    /\ th[t].pc = "sd_check"
    /\ LET current_count == IF DirectoryFails(Server(t), Directory(t)) THEN 0
                            ELSE get_directory_file_count(Server(t), Directory(t))
           cached_meta == get_directory_meta(store, Server(t), Directory(t))
           cached_count == CachedCount(cached_meta)
       IN  th' = [th EXCEPT ![t] =
                     IF ScanNeeded(current_count, cached_count)
                     THEN [@ EXCEPT !.pc = "sd_walk", !.cur = current_count,
                                    !.skip = FALSE]
                     ELSE NextDirectory([@ EXCEPT !.skip = TRUE])]
    /\ UNCHANGED <<remote, store, scanning, scan_lock, changes, dl, search, handlers, fault, strm, env, req>>

\* scan_directory: apk_files = client.scan_apk_files(directory)
ScanDirectoryWalk(t) ==
    /\ th[t].pc = "sd_walk"
    /\ th' = [th EXCEPT ![t].pc = "sd_setfiles",
                        ![t].apks = IF DirectoryFails(Server(t), Directory(t)) THEN <<>>
                                    ELSE scan_apk_files(Server(t), Directory(t)),
                        ![t].pending = @ \ {<<Server(t), Directory(t)>>}]
    /\ UNCHANGED <<remote, store, scanning, scan_lock, changes, dl, search, handlers, fault, strm, env, req>>

\* scan_directory: redis_client.set_apk_files(server_name, directory, apk_files)
ScanDirectorySetFiles(t) ==
    /\ th[t].pc = "sd_setfiles"
    /\ store' = set_apk_files(store, Server(t), Directory(t), th[t].apks)
    /\ th' = [th EXCEPT ![t].pc = "sd_setmeta"]
    /\ UNCHANGED <<remote, scanning, scan_lock, changes, dl, search, handlers, fault, strm, env, req>>

\* scan_directory: redis_client.set_directory_meta(server_name, directory, meta)
ScanDirectorySetMeta(t) ==
    /\ th[t].pc = "sd_setmeta"
    /\ store' = set_directory_meta(store, Server(t), Directory(t),
                    [subdir_count |-> th[t].cur, last_scan |-> Now,
                     files_count |-> Len(th[t].apks)])
    /\ th' = [th EXCEPT ![t] = NextDirectory(@)]
    /\ UNCHANGED <<remote, scanning, scan_lock, changes, dl, search, handlers, fault, strm, env, req>>

\* scan_all_servers: finally: self.scanning = False
ScanAllClearFlag(t) ==
    /\ th[t].pc = "sas_clearflag"
    /\ scanning' = FALSE
    /\ th' = [th EXCEPT ![t].pc = "sas_release"]
    /\ UNCHANGED <<remote, store, scan_lock, changes, dl, search, handlers, fault, strm, env, req>>

\* scan_all_servers: the with block is left
ScanAllRelease(t) ==
    /\ th[t].pc = "sas_release"
    /\ scan_lock' = None
    /\ th' = [th EXCEPT ![t].pc = "done"]
    /\ UNCHANGED <<remote, store, scanning, changes, dl, search, handlers, fault, strm, env, req>>

\* the call has returned; the initial-scan thread ends, the others wait for
\* their next trigger
Finish(t) ==
    /\ th[t].pc = "done"
    /\ th' = [th EXCEPT ![t] =
                 [IdleLocals EXCEPT !.pc = IF t = "initial" THEN "exit" ELSE "idle"]]
    /\ UNCHANGED <<remote, store, scanning, scan_lock, changes, dl, search, handlers, fault, strm, env, req>>

\* download_file (api.py): the catalog effect of a resolved download of a
\* catalogued file
DownloadCount ==
    /\ \E server \in ServerSet, d \in {S_AppA, S_AppB, S_AppC} :
          \E i \in 1..Len(get_apk_files(store, server, d)) :
             LET path == get_apk_files(store, server, d)[i].relative_path
                 directory == IF Contains(path, <<BS>>) THEN Split(path, BS)[2] ELSE <<>>
             IN  /\ get_apk_files(store, server, d)[i].download_time < MaxDownloads
                 /\ store' = increment_download_count(store, server, directory, path)
    /\ UNCHANGED <<remote, scanning, scan_lock, th, changes, dl, search, handlers, fault, strm, env, req>>

\* somebody adds or removes a directory (with what it holds) or a file on a share
RemoteChange ==
    /\ changes < MaxRemoteChanges
    /\ changes' = changes + 1
    /\ \E server \in ServerSet :
          \/ \E p \in ChangingDirs(server) :
                remote' = [remote EXCEPT ![server] =
                    IF p \in @.dirs
                    THEN [dirs |-> {q \in @.dirs : ~IsPrefix(p, q)},
                          files |-> {q \in @.files : ~IsPrefix(p, q)}]
                    ELSE [@ EXCEPT !.dirs = @ \cup {p}]]
          \/ \E f \in ChangingFiles(server) :
                /\ f \in remote[server].files \/ SubSeq(f, 1, Len(f) - 1) \in remote[server].dirs
                /\ remote' = [remote EXCEPT ![server].files =
                                 IF f \in @ THEN @ \ {f} ELSE @ \cup {f}]
    /\ UNCHANGED <<store, scanning, scan_lock, th, dl, search, handlers, fault, strm, env, req>>

(***************************************************************************)
(* GET /api/download (api.py download_file) and the SMB streams it uses.   *)
(***************************************************************************)
S_bytes_eq == <<"b","y","t","e","s","=">>
Digits == <<"0","1","2","3","4","5","6","7","8","9">>

MAX_RETRIES == 2
CHUNK_SIZE == 65536

\* the bytes of the file at share-relative path p
FileBytes(p) == [i \in 1..EndOfFile(Last(p)) |-> (i + Len(p)) % 4]

\* Python's s.replace(old, "")
RECURSIVE Remove(_, _)
Remove(s, old) ==
    IF Len(s) < Len(old) \/ old = <<>> THEN s
    ELSE IF SubSeq(s, 1, Len(old)) = old
    THEN Remove(SubSeq(s, Len(old) + 1, Len(s)), old)
    ELSE <<Head(s)>> \o Remove(Tail(s), old)

\* Python's s.split("-", 1)
SplitFirst(s, sep) ==
    LET i == CHOOSE k \in 1..Len(s) : s[k] = sep /\ \A j \in 1..(k - 1) : s[j] # sep
    IN  <<SubSeq(s, 1, i - 1), SubSeq(s, i + 1, Len(s))>>

IsDigit(c) == \E d \in 1..10 : Digits[d] = c

DigitValue(c) == (CHOOSE d \in 1..10 : Digits[d] = c) - 1

\* whether int(s) succeeds (it raises ValueError otherwise), and its value
IsInt(s) ==
    LET body == IF s # <<>> /\ Head(s) \in {"+", "-"} THEN Tail(s) ELSE s
    IN  body # <<>> /\ \A i \in 1..Len(body) : IsDigit(body[i])

RECURSIVE NatOf(_)
NatOf(s) == IF s = <<>> THEN 0 ELSE 10 * NatOf(SubSeq(s, 1, Len(s) - 1)) + DigitValue(Last(s))

IntOf(s) ==
    IF Head(s) = "-" THEN 0 - NatOf(Tail(s))
    ELSE IF Head(s) = "+" THEN NatOf(Tail(s))
    ELSE NatOf(s)

\* SMBClient.connect: host and share of the configured path
Host(server) == Split(ConfigPath(server), BS)[3]

Share(server) == Split(ConfigPath(server), BS)[4]

\* the share-relative path a UNC name \\host\share\... denotes
UncPath(unc) == LET parts == Split(unc, BS) IN SubSeq(parts, 5, Len(parts))

\* SMBClient.file_exists: opens base_path + relative_path on the tree
file_exists(server, relative_path) ==
    PathOf(BasePath(server) \o relative_path) \in remote[server].files

\* faulty variant: a failing query_info makes the file look absent
get_file_info_AbsentOnFailure(server, relative_path) ==
    LET p == PathOf(BasePath(server) \o relative_path)
    IN  IF p \in remote[server].files /\ ~fault.query_info
        THEN [exists |-> TRUE, size |-> Len(FileBytes(p))]
        ELSE [exists |-> FALSE, size |-> 0]

\* SMBClient.get_file_info: the end-of-file of an existing file, or size 0
\* when query_info fails
get_file_info(server, relative_path) ==
    LET p == PathOf(BasePath(server) \o relative_path)
    IN  IF p \in remote[server].files
        THEN [exists |-> TRUE,
              size |-> IF fault.query_info THEN 0 ELSE Len(FileBytes(p))]
        ELSE [exists |-> FALSE, size |-> 0]

\* SMBClient.download_file_stream, consumed to its end: the chunks of the
\* file read through the handle file_exists could open too.  Its second
\* result, the size, is None (here 0) when query_info fails.
download_file_stream(server, relative_path) ==
    LET p == PathOf(BasePath(server) \o relative_path)
    IN  IF p \in remote[server].files /\ (~fault.query_info \/ Len(FileBytes(p)) > 0)
        THEN [raised |-> FALSE, body |-> FileBytes(p), stream_error |-> FALSE,
              size |-> IF fault.query_info THEN 0 ELSE Len(FileBytes(p))]
        ELSE [raised |-> TRUE, body |-> <<>>, stream_error |-> FALSE, size |-> 0]

\* the read loop of range_stream: seek(start), then chunks until `remaining`
\* is used up or the file ends
RECURSIVE RangeRead(_, _, _, _)
RangeRead(content, pos, remaining, chunk_size) ==
    IF remaining <= 0 THEN <<>>
    ELSE LET bytes_to_read == IF chunk_size < remaining THEN chunk_size ELSE remaining
             upto == IF pos + bytes_to_read < Len(content)
                     THEN pos + bytes_to_read ELSE Len(content)
             data == SubSeq(content, pos + 1, upto)
         IN  IF data = <<>> THEN <<>>
             ELSE data \o RangeRead(content, pos + Len(data),
                                    remaining - Len(data), chunk_size)

\* the name download_file_range_stream opens
RangeUncPath(server, path) ==
    LET stripped == IF StartsWith(path, <<BS>>) THEN Tail(path) ELSE path
    IN  <<BS, BS>> \o Host(server) \o <<BS>> \o Share(server) \o <<BS>> \o stripped

\* SMBClient.download_file_range_stream, consumed through safe_file_stream:
\* what the client receives, and whether the stream raised
download_file_range_stream(server, path, start, end) ==
    LET p == UncPath(RangeUncPath(server, path))
        remaining == end - start + 1
        chunk_size == IF CHUNK_SIZE < remaining THEN CHUNK_SIZE ELSE remaining
    IN  IF p \in remote[server].files /\ ~fault.open
        THEN [body |-> RangeRead(FileBytes(p), start, remaining, chunk_size),
              stream_error |-> FALSE]
        ELSE [body |-> <<>>, stream_error |-> TRUE]

\* the name download_file_stream_smbclient opens
FullUncPath(server, path) ==
    LET server_path == IF EndsWith(ConfigPath(server), <<BS>>)
                       THEN SubSeq(ConfigPath(server), 1, Len(ConfigPath(server)) - 1)
                       ELSE ConfigPath(server)
    IN  IF StartsWith(path, <<BS>>) THEN server_path \o path
        ELSE server_path \o <<BS>> \o path

\* smbclient.stat(unc_path).st_size, 0 when the call fails
stat_size(server, path) ==
    LET p == UncPath(FullUncPath(server, path))
    IN  IF p \in remote[server].files /\ ~fault.stat THEN Len(FileBytes(p)) ELSE 0

\* download_file, size resolution: file info, then smbclient.stat, then the
\* probe with the low-level stream; 0 stands for None
FileSize(server, path) ==
    LET file_info == get_file_info(server, path)
        st_size == stat_size(server, path)
        probe == download_file_stream(server, path)
    IN  IF file_info.size > 0 THEN file_info.size
        ELSE IF st_size > 0 THEN st_size
        ELSE IF ~probe.raised THEN probe.size
        ELSE 0

\* SMBClient.download_file_stream_smbclient, consumed through
\* safe_file_stream: the accessibility check passes on some attempt and the
\* open succeeds, or the generator raises before it yields
download_file_stream_smbclient(server, path) ==
    LET p == UncPath(FullUncPath(server, path))
    IN  IF /\ p \in remote[server].files /\ Len(FileBytes(p)) > 0
           /\ ~fault.access /\ ~fault.open
        THEN [body |-> FileBytes(p), stream_error |-> FALSE]
        ELSE [body |-> <<>>, stream_error |-> TRUE]

\* Python's str(n)
RECURSIVE Str(_)
Str(n) ==
    IF n < 0 THEN <<"-">> \o Str(0 - n)
    ELSE IF n < 10 THEN <<Digits[n + 1]>>
    ELSE Str(n \div 10) \o <<Digits[(n % 10) + 1]>>

S_bytes_sp == <<"b","y","t","e","s"," ">>

\* the range validation of download_file
RangeInvalid_OffByOne(start, end, file_size) ==
    start > file_size \/ end > file_size \/ start > end

RangeInvalid(start, end, file_size) ==
    start >= file_size \/ end >= file_size \/ start > end

\* download_file, "Parse Range header": what a Range header asks for when the
\* file's size is known.  A header int() cannot read is ignored (ValueError).
ParseRange(range_header, file_size) ==
    LET range_match == Remove(range_header, S_bytes_eq)
        whole == [status_code |-> 200, start |-> 0, end |-> file_size - 1]
    IN  IF ~Contains(range_match, <<"-">>) THEN whole
        ELSE LET range_start == SplitFirst(range_match, "-")[1]
                 range_end == SplitFirst(range_match, "-")[2]
             IN  IF \/ range_start # <<>> /\ ~IsInt(range_start)
                    \/ range_end # <<>> /\ ~IsInt(range_end)
                 THEN whole
                 ELSE LET start == IF range_start # <<>> THEN IntOf(range_start) ELSE 0
                          end == IF range_end # <<>> THEN IntOf(range_end)
                                 ELSE file_size - 1
                      IN  IF RangeInvalid(start, end, file_size)
                          THEN [status_code |-> 416, start |-> start, end |-> end]
                          ELSE [status_code |-> 206, start |-> start, end |-> end]

\* faulty variant: the share named by the request is not validated
ServerMissing_NotValidated(server) == FALSE

\* `if server not in Config.FILE_SERVERS`
ServerMissing(server) == server \notin ServerSet

\* SMBManager.get_client when no client is cached for the share: ValueError
\* for a share that is not configured, before any connection; ConnectionError
\* when connect() fails
get_client(server) ==
    IF server \notin ServerSet THEN "ValueError"
    ELSE IF ConnectFails(server) THEN "ConnectionError"
    ELSE "ok"

\* the shares a handler calling get_client(server) tries to connect to
Connects(server) ==
    IF ServerMissing(server) \/ server \notin ServerSet THEN {} ELSE {server}

\* an HTTPException leaving the handler
Raise(st, status_code, headers) ==
    [raised |-> TRUE, status_code |-> status_code, headers |-> headers,
     body |-> <<>>, stream_error |-> FALSE, store |-> st]

\* download_file from "Parse Range header" on, the size resolution having
\* given file_size (0 for None)
ServeFile(st, server, path, range_header, file_size) ==
    LET known == file_size > 0
        range == IF range_header # <<>> /\ known
                 THEN ParseRange(range_header, file_size)
                 ELSE [status_code |-> 200, start |-> 0,
                       end |-> IF known THEN file_size - 1 ELSE 0]
        directory == IF Contains(path, <<BS>>) THEN Split(path, BS)[2] ELSE <<>>
    IN  IF range.status_code = 416
        THEN Raise(st, 416, ("Content-Range" :> (S_bytes_sp \o <<"*", "/">> \o Str(file_size))))
        ELSE
        LET file_stream == IF range.status_code = 206
                           THEN download_file_range_stream(server, path, range.start, range.end)
                           ELSE IF fault.config
                           THEN download_file_stream(server, path)
                           ELSE download_file_stream_smbclient(server, path)
            headers == IF range.status_code = 206
                       THEN ("Content-Length" :> Str(range.end - range.start + 1))
                            @@ ("Content-Range" :>
                                   (S_bytes_sp \o Str(range.start) \o <<"-">>
                                    \o Str(range.end) \o <<"/">> \o Str(file_size)))
                       ELSE IF known THEN ("Content-Length" :> Str(file_size))
                       ELSE ("Transfer-Encoding" :> <<"c","h","u","n","k","e","d">>)
        IN  [raised |-> FALSE, status_code |-> range.status_code, headers |-> headers,
             body |-> file_stream.body, stream_error |-> file_stream.stream_error,
             store |-> increment_download_count(st, server, directory, path)]

\* one run of download_file over catalog st: the exception it raises or the
\* response it returns, and the catalog it leaves
download_file(st, server, path, range_header) ==
    IF ServerMissing(server) THEN Raise(st, 404, <<>>)
    ELSE IF get_client(server) # "ok" THEN Raise(st, 500, <<>>)
    ELSE IF ~file_exists(server, path) THEN Raise(st, 404, <<>>)
    ELSE IF ~get_file_info(server, path).exists THEN Raise(st, 404, <<>>)
    ELSE ServeFile(st, server, path, range_header, FileSize(server, path))

\* nothing fails
NoFault ==
    [query_info |-> FALSE, stat |-> FALSE, access |-> FALSE, open |-> FALSE,
     config |-> FALSE]

\* what may fail while one request is served: query_info on the low-level
\* handle, smbclient.stat of the size resolution, the accessibility check of
\* the high-level stream on every attempt, smbclient.open_file, and
\* smbclient.ClientConfig of download_file_stream_smbclient
Faults ==
    [query_info : BOOLEAN, stat : BOOLEAN, access : BOOLEAN, open : BOOLEAN,
     config : BOOLEAN]

NoHandlers == <<>>

NoStream ==
    [pc |-> "idle", path |-> <<>>, attempt |-> 0, pos |-> 0, delivered |-> <<>>,
     tmp |-> FALSE, ended |-> "", log |-> <<>>, sent |-> <<>>, response |-> "",
     file_stream |-> <<>>, start |-> 0, end |-> 0, bytes_skipped |-> 0,
     bytes_served |-> 0]

\* what the clients of the model ask for
RequestPaths ==
    {<<BS>> \o S_AppA \o <<BS>> \o S_release_apk,
     <<BS>> \o S_AppA \o <<BS>> \o S_sub \o <<BS>> \o S_debug_apk,
     <<BS>> \o S_AppC \o <<BS>> \o S_release_apk,
     <<BS>> \o S_AppA \o <<BS>> \o S_x_APK}

RangeBounds == {<<>>, <<"0">>, <<"2">>, <<"4">>, <<"5">>, <<"7">>}

RangeHeaders ==
    {<<>>, S_bytes_eq \o <<"2">>, S_bytes_eq \o <<"x", "-", "1">>}
    \cup {S_bytes_eq \o a \o <<"-">> \o b : a \in RangeBounds, b \in RangeBounds}

NoDownload ==
    [pc |-> "idle", server |-> <<>>, path |-> <<>>, range_header |-> <<>>,
     attempt |-> 0, status_code |-> 0, headers |-> <<>>, body |-> <<>>,
     stream_error |-> FALSE, store0 |-> <<>>]

\* every catalogued file has been downloaded fewer than MaxDownloads times
MayDownload ==
    \A key \in DOMAIN store :
        S_files \in DOMAIN store[key] =>
            \A i \in 1..Len(store[key][S_files]) :
                store[key][S_files][i].download_time < MaxDownloads

\* a client sends GET /api/download
DownloadRequest ==
    /\ dl.pc = "idle"
    /\ MayDownload
    /\ \E server \in ServerSet, path \in RequestPaths, range_header \in RangeHeaders :
          dl' = [NoDownload EXCEPT !.pc = "run", !.server = server, !.path = path,
                                   !.range_header = range_header, !.store0 = store]
    /\ fault' \in Faults
    /\ UNCHANGED <<remote, store, scanning, scan_lock, th, changes, search, handlers, strm, env, req>>

\* retry_on_failure(max_retries=2) runs the handler once more after an
\* exception, and passes the last exception on
DownloadAttempt ==
    /\ dl.pc = "run"
    /\ LET r == download_file(store, dl.server, dl.path, dl.range_header)
       IN  /\ store' = r.store
           /\ dl' = IF r.raised /\ dl.attempt < MAX_RETRIES - 1
                    THEN [dl EXCEPT !.attempt = @ + 1]
                    ELSE [dl EXCEPT !.pc = "responded", !.attempt = @ + 1,
                                    !.status_code = r.status_code,
                                    !.headers = r.headers, !.body = r.body,
                                    !.stream_error = r.stream_error]
    /\ UNCHANGED <<remote, scanning, scan_lock, th, changes, search, handlers, fault, strm, env, req>>

\* the response has been sent to the client
DownloadReturn ==
    /\ dl.pc = "responded"
    /\ dl' = NoDownload
    /\ fault' = NoFault
    /\ UNCHANGED <<remote, store, scanning, scan_lock, th, changes, search, handlers, strm, env, req>>

(***************************************************************************)
(* The generator file_stream_with_retry of download_file_stream_smbclient  *)
(* and the generator _fallback_file_copy, resumed step by step by their    *)
(* consumer.  What the share answers to each call is the environment's     *)
(* choice; strm.log keeps the answers.                                     *)
(***************************************************************************)
STREAM_MAX_RETRIES == 3

\* the files streamed in the model, by their share-relative paths
StreamPaths ==
    {<<S_apks, S_AppA, S_release_apk>>, <<S_apks, S_AppA, S_sub, S_debug_apk>>,
     <<S_apks, S_AppB, S_x_APK>>}

\* f.read(chunk_size) at position pos
ReadAt(content, pos, chunk_size) ==
    SubSeq(content, pos + 1,
           IF pos + chunk_size < Len(content) THEN pos + chunk_size ELSE Len(content))

\* faulty variant: the wrapper passes the exception of the stream on
safe_file_stream_Reraise(how) ==
    CASE how = "complete" -> "complete"
      [] how = "error" -> "raised"
      [] how = "abandoned" -> "closed"

\* safe_file_stream of download_file: how the response generator ends when
\* the stream it forwards ends by exhaustion, by an exception, or by being
\* closed
safe_file_stream(how) ==
    CASE how = "complete" -> "complete"
      [] how = "error" -> "truncated"
      [] how = "abandoned" -> "closed"

\* the generator has ended; its finally clauses have run
StreamEnd(r, how, event) ==
    [r EXCEPT !.pc = "ended", !.ended = how, !.log = Append(@, event),
              !.response = safe_file_stream(how)]

\* `continue` of the retry loop
StreamRetry(r, event) ==
    [r EXCEPT !.pc = "check", !.attempt = @ + 1, !.pos = 0, !.log = Append(@, event)]

\* faulty variant: one retry fewer before the fallback
OnLockError_OneFewer(r, event) ==
    IF r.attempt < STREAM_MAX_RETRIES - 1
    THEN StreamRetry(r, event)
    ELSE [r EXCEPT !.pc = "fb_copy", !.pos = 0, !.log = Append(@, event)]

\* the handler of SMBOSError with a lock-contention message
OnLockError(r, event) ==
    IF r.attempt < STREAM_MAX_RETRIES
    THEN StreamRetry(r, event)
    ELSE [r EXCEPT !.pc = "fb_copy", !.pos = 0, !.log = Append(@, event)]

\* the handler of any other exception whose message names a timeout or the
\* connection
OnRetryableError(r, event) ==
    IF r.attempt < STREAM_MAX_RETRIES
    THEN StreamRetry(r, event)
    ELSE StreamEnd(r, "error", event)

\* whether the temporary file is there once _fallback_file_copy has ended
TmpAfterEnd_OnlyComplete(how) == how # "complete"

TmpAfterEnd(how) == FALSE

\* the consumer asks the stream of a file for its first chunk
StreamStart ==
    /\ strm.pc = "idle"
    /\ \E p \in StreamPaths : strm' = [NoStream EXCEPT !.pc = "check", !.path = p]
    /\ UNCHANGED <<remote, store, scanning, scan_lock, th, changes, dl, search,
                   handlers, fault, env, req>>

\* if not self._is_file_accessible(unc_path)
AccessCheck ==
    /\ strm.pc = "check"
    /\ \/ strm' = [strm EXCEPT !.pc = "open", !.log = Append(@, "acc_ok")]
       \/ strm' = IF strm.attempt < STREAM_MAX_RETRIES
                  THEN StreamRetry(strm, "acc_no")
                  ELSE StreamEnd(strm, "error", "acc_no")
    /\ UNCHANGED <<remote, store, scanning, scan_lock, th, changes, dl, search,
                   handlers, fault, env, req>>

\* with smbclient.open_file(unc_path, ...) as f
OpenFile ==
    /\ strm.pc = "open"
    /\ \/ strm' = [strm EXCEPT !.pc = "read", !.pos = 0, !.log = Append(@, "open_ok")]
       \/ strm' = OnLockError(strm, "open_lock")
       \/ strm' = OnRetryableError(strm, "open_timeout")
       \/ strm' = StreamEnd(strm, "error", "open_fatal")
    /\ UNCHANGED <<remote, store, scanning, scan_lock, th, changes, dl, search,
                   handlers, fault, env, req>>

\* data = f.read(chunk_size), then yield data or leave the loop
ReadChunk ==
    /\ strm.pc = "read"
    /\ \/ LET data == ReadAt(FileBytes(strm.path), strm.pos, CHUNK_SIZE)
          IN  strm' = IF data = <<>>
                      THEN StreamEnd(strm, "complete", "eof")
                      ELSE [strm EXCEPT !.pos = @ + Len(data),
                                        !.delivered = @ \o data,
                                        !.sent = @ \o data,
                                        !.log = Append(@, "read_ok")]
       \/ strm' = OnLockError(strm, "read_lock")
       \/ strm' = StreamEnd(strm, "error", "read_fatal")
    /\ UNCHANGED <<remote, store, scanning, scan_lock, th, changes, dl, search,
                   handlers, fault, env, req>>

\* _fallback_file_copy up to its first read: the temporary file is made and
\* the remote file copied into it, by smbclient.copyfile or else by smbget
FallbackCopy ==
    /\ strm.pc = "fb_copy"
    /\ \/ \E event \in {"copyfile_ok", "smbget_ok"} :
             strm' = [strm EXCEPT !.pc = "fb_read", !.tmp = TRUE, !.pos = 0,
                                  !.log = Append(@, event)]
       \/ strm' = [StreamEnd(strm, "error", "copy_fail") EXCEPT
                      !.tmp = TmpAfterEnd("error")]
    /\ UNCHANGED <<remote, store, scanning, scan_lock, th, changes, dl, search,
                   handlers, fault, env, req>>

\* the read loop over the temporary file
FallbackRead ==
    /\ strm.pc = "fb_read"
    /\ \/ LET data == ReadAt(FileBytes(strm.path), strm.pos, CHUNK_SIZE)
          IN  strm' = IF data = <<>>
                      THEN [StreamEnd(strm, "complete", "eof") EXCEPT
                               !.tmp = TmpAfterEnd("complete")]
                      ELSE [strm EXCEPT !.pos = @ + Len(data),
                                        !.delivered = @ \o data,
                                        !.sent = @ \o data,
                                        !.log = Append(@, "read_ok")]
       \/ strm' = [StreamEnd(strm, "error", "tmp_read_fatal") EXCEPT
                      !.tmp = TmpAfterEnd("error")]
    /\ UNCHANGED <<remote, store, scanning, scan_lock, th, changes, dl, search,
                   handlers, fault, env, req>>

\* the consumer closes the stream while it is suspended at a yield
Abandon ==
    /\ strm.pc \in {"read", "fb_read"}
    /\ strm.pos > 0
    /\ strm' = [StreamEnd(strm, "abandoned", "close") EXCEPT
                   !.tmp = IF strm.pc = "fb_read" THEN TmpAfterEnd("abandoned") ELSE @]
    /\ UNCHANGED <<remote, store, scanning, scan_lock, th, changes, dl, search,
                   handlers, fault, env, req>>

StreamStep ==
    \/ StreamStart
    \/ AccessCheck
    \/ OpenFile
    \/ ReadChunk
    \/ FallbackCopy
    \/ FallbackRead
    \/ Abandon

(***************************************************************************)
(* Several download handlers on the one event loop of uvicorn.  A handler  *)
(* is a coroutine: download_file holds no await, so one run of it is one   *)
(* step; the loop switches handlers only at the await of retry_on_failure. *)
(***************************************************************************)
NumHandlers == 2

\* the file all handlers of the model are asked for
SharedServer == S_server_1

SharedPath == <<BS>> \o S_AppA \o <<BS>> \o S_release_apk

HandlerHeaders ==
    {<<>>, S_bytes_eq \o <<"0", "-", "0">>, S_bytes_eq \o <<"5", "-", "5">>,
     S_bytes_eq \o <<"x", "-", "1">>, S_bytes_eq \o <<"2", "-">>}

IdleHandler == [pc |-> "idle", range_header |-> <<>>, attempt |-> 0, status_code |-> 0]

\* a request for the shared file arrives and gets its handler
HandlerRequest(h) ==
    /\ handlers[h].pc = "idle"
    /\ \E range_header \in HandlerHeaders :
          handlers' = [handlers EXCEPT ![h] =
                          [IdleHandler EXCEPT !.pc = "run", !.range_header = range_header]]
    /\ UNCHANGED <<remote, store, scanning, scan_lock, th, changes, dl, search, fault, strm, env, req>>

\* the event loop runs handler h up to its next await or its return
HandlerAttempt(h) ==
    /\ handlers[h].pc = "run"
    /\ LET r == download_file(store, SharedServer, SharedPath, handlers[h].range_header)
       IN  /\ store' = r.store
           /\ handlers' = [handlers EXCEPT ![h] =
                              IF r.raised /\ @.attempt < MAX_RETRIES - 1
                              THEN [@ EXCEPT !.attempt = @ + 1]
                              ELSE [@ EXCEPT !.pc = "responded", !.attempt = @ + 1,
                                             !.status_code = r.status_code]]
    /\ UNCHANGED <<remote, scanning, scan_lock, th, changes, dl, search, fault, strm, env, req>>

HandlerStep ==
    \/ \E h \in 1..NumHandlers : HandlerRequest(h)
    \/ \E h \in 1..NumHandlers : HandlerAttempt(h)

\* the catalog one complete scan of a server's directories leaves
RECURSIVE ScanDirs(_, _, _)
ScanDirs(st, server, dirs) ==
    IF dirs = <<>> THEN st
    ELSE LET directory == Head(dirs)
             apk_files == scan_apk_files(server, directory)
             meta == [subdir_count |-> get_directory_file_count(server, directory),
                      last_scan |-> Now, files_count |-> Len(apk_files)]
         IN  ScanDirs(set_directory_meta(
                          set_apk_files(st, server, directory, apk_files),
                          server, directory, meta),
                      server, Tail(dirs))

RECURSIVE ScanServers(_, _)
ScanServers(st, servers) ==
    IF servers = <<>> THEN st
    ELSE ScanServers(ScanDirs(st, Head(servers), list_directories(Head(servers), <<>>)),
                     Tail(servers))

\* server_1 with a second release.apk directly under the share: \\h1\s1\AppA
AliasRemote ==
    [InitRemote EXCEPT ![S_server_1] =
        [dirs |-> @.dirs \cup {<<S_AppA>>},
         files |-> @.files \cup {<<S_AppA, S_release_apk>>}]]

(***************************************************************************)
(* POST /api/search: RedisClient.search_apk_files and _filter_files.       *)
(***************************************************************************)
S_combine == <<"c","o","m","b","i","n","e">>

WhiteSpace == {" ", "\t", "\n", "\r"}

\* Python's s.strip()
RECURSIVE Strip(_)
Strip(s) ==
    IF s = <<>> THEN s
    ELSE IF Head(s) \in WhiteSpace THEN Strip(Tail(s))
    ELSE IF Last(s) \in WhiteSpace THEN Strip(SubSeq(s, 1, Len(s) - 1))
    ELSE s

\* [k.strip().lower() for k in keyword.split("|") if k.strip()]
ParseKeywords(keyword) ==
    LET kept == SelectSeq(Split(keyword, "|"), LAMBDA k : Strip(k) # <<>>)
    IN  [i \in 1..Len(kept) |-> Lower(Strip(kept[i]))]

\* f"{file.file_name} {file.relative_path}".lower()
FileText(file) == Lower(file.file_name \o <<" ">> \o file.relative_path)

\* all(kw in file_text for kw in keywords), behind `if keywords`
KeywordsMatch_Any(file, keywords) ==
    keywords = <<>> \/ \E i \in 1..Len(keywords) : Contains(FileText(file), keywords[i])

KeywordsMatch(file, keywords) ==
    keywords = <<>> \/ \A i \in 1..Len(keywords) : Contains(FileText(file), keywords[i])

\* the build type test of _filter_files
BuildTypeMatch_NoCombine(file, build_type) == file.build_type = build_type

BuildTypeMatch(file, build_type) ==
    build_type = S_combine \/ file.build_type = build_type

\* RedisClient._filter_files
filter_files(files, keyword, build_type) ==
    SelectSeq(files, LAMBDA file : /\ BuildTypeMatch(file, build_type)
                                   /\ KeywordsMatch(file, ParseKeywords(keyword)))

\* faulty variant: the list is left in the order it was gathered
SortByCreatedDesc_Unsorted(files) == files

\* list.sort(key=created_time, reverse=True): stable, newest first
RECURSIVE SortByCreatedDesc(_)
SortByCreatedDesc(files) ==
    IF files = <<>> THEN <<>>
    ELSE LET rest == SortByCreatedDesc(SubSeq(files, 1, Len(files) - 1))
             x == Last(files)
             n == Cardinality({i \in 1..Len(rest) : rest[i].created_time >= x.created_time})
         IN  SubSeq(rest, 1, n) \o <<x>> \o SubSeq(rest, n + 1, Len(rest))

\* filtered_files[offset:offset + limit], for offset >= 0 and limit >= 0
Page(files, offset, limit) ==
    SubSeq(files, offset + 1,
           IF offset + limit < Len(files) THEN offset + limit ELSE Len(files))

\* the orders in which KEYS may return a set of keys
Orders(S) ==
    {o \in [1..Cardinality(S) -> S] : \A i, j \in 1..Cardinality(S) : o[i] = o[j] => i = j}

\* self.client.keys(f"apk_finder:{server_name}:*")
KeysOf(st, server_name) ==
    {key \in DOMAIN st : StartsWith(key, S_apk_finder \o <<":">> \o server_name \o <<":">>)}

\* the loop over one server's keys, in the order KEYS gave them
RECURSIVE GatherKeys(_, _, _)
GatherKeys(st, server_name, keys) ==
    IF keys = <<>> THEN <<>>
    ELSE IF EndsWith(Head(keys), <<":">> \o S_meta)
    THEN GatherKeys(st, server_name, Tail(keys))
    ELSE get_apk_files(st, server_name, Last(Split(Head(keys), ":")))
         \o GatherKeys(st, server_name, Tail(keys))

RECURSIVE GatherServers(_, _, _)
GatherServers(st, servers, order) ==
    IF servers = <<>> THEN <<>>
    ELSE (IF Head(servers) \in DOMAIN order
          THEN GatherKeys(st, Head(servers), order[Head(servers)])
          ELSE <<>>)
         \o GatherServers(st, Tail(servers), order)

\* what the clients of the model search for
SearchTerms ==
    {<<>>, <<" ">>, S_release, <<"R","E","L">>, <<" ">> \o S_debug \o <<" ">>,
     S_AppA, <<"k", BS, "a">>, <<"k", " ", BS, "a">>, <<"z">>}

SearchKeywords ==
    SearchTerms \cup {a \o <<"|">> \o b : a \in SearchTerms, b \in SearchTerms}

SearchBuildTypes == {S_combine, S_release, S_debug, S_unknown, <<"R","e","l","e","a","s","e">>}

MaxLimit == 2

NoSearch ==
    [pc |-> "idle", keyword |-> <<>>, server |-> <<>>, build_type |-> <<>>,
     limit |-> 0, offset |-> 0, all_files |-> <<>>, filtered_files |-> <<>>,
     total |-> 0, items |-> <<>>, collected |-> <<>>]

\* RedisClient.search_apk_files, KEYS answering in the given order for each
\* server; server <<>> stands for no server given.  When KEYS raises, the
\* except clause returns [], 0.
search_apk_files(st, keyword, server, build_type, limit, offset, order) ==
    LET servers_to_search == IF server # <<>> THEN <<server>> ELSE FILE_SERVERS
        all_files == IF env.redis_down THEN <<>>
                     ELSE GatherServers(st, servers_to_search, order)
        filtered_files == SortByCreatedDesc(filter_files(all_files, keyword, build_type))
    IN  [raised |-> FALSE,
         all_files |-> all_files, filtered_files |-> filtered_files,
         total |-> Len(filtered_files), items |-> Page(filtered_files, offset, limit)]

\* the orders KEYS may answer in, one for each server
KeyOrders ==
    {(S_server_1 :> o1) @@ (S_server_2 :> o2) :
        o1 \in Orders(KeysOf(store, S_server_1)),
        o2 \in Orders(KeysOf(store, S_server_2))}

\* the state of the request after one call
Answered(pc, keyword, server, build_type, limit, offset, r, collected) ==
    [pc |-> pc, keyword |-> keyword, server |-> server, build_type |-> build_type,
     limit |-> limit, offset |-> offset, all_files |-> r.all_files,
     filtered_files |-> r.filtered_files, total |-> r.total, items |-> r.items,
     collected |-> collected]

\* a client sends POST /api/search
Search ==
    /\ search.pc = "idle"
    /\ \E keyword \in SearchKeywords, build_type \in SearchBuildTypes,
          server \in {<<>>} \cup ServerSet, limit \in 1..MaxLimit, offset \in 0..1,
          order \in KeyOrders :
          search' = Answered("done", keyword, server, build_type, limit, offset,
                       search_apk_files(store, keyword, server, build_type,
                                        limit, offset, order), <<>>)
    /\ UNCHANGED <<remote, store, scanning, scan_lock, th, changes, dl,
                 handlers, fault, strm, env, req>>

\* a client asks for the first page of a listing it will read to the end
FirstPage ==
    /\ search.pc = "idle"
    /\ \E keyword \in SearchTerms, build_type \in SearchBuildTypes,
          server \in {<<>>} \cup ServerSet, limit \in 1..MaxLimit,
          order \in KeyOrders :
          LET r == search_apk_files(store, keyword, server, build_type, limit, 0, order)
          IN  search' = Answered("paging", keyword, server, build_type, limit, 0,
                                 r, r.items)
    /\ UNCHANGED <<remote, store, scanning, scan_lock, th, changes, dl,
                 handlers, fault, strm, env, req>>

\* the client asks for the page after the one it has, with the same query
NextPage ==
    /\ search.pc = "paging"
    /\ search.offset + search.limit < search.total
    /\ \E order \in KeyOrders :
          LET offset == search.offset + search.limit
              r == search_apk_files(store, search.keyword, search.server,
                                    search.build_type, search.limit, offset, order)
          IN  search' = Answered("paging", search.keyword, search.server,
                                 search.build_type, search.limit, offset, r,
                                 search.collected \o r.items)
    /\ UNCHANGED <<remote, store, scanning, scan_lock, th, changes, dl,
                 handlers, fault, strm, env, req>>

\* no request is being handled
NoRequest ==
    [pc |-> "idle", endpoint |-> "", token |-> <<>>, server |-> <<>>,
     path |-> <<>>, status_code |-> 0, total |-> 0, connects |-> {},
     directory |-> <<>>, files |-> <<>>, opens |-> <<>>]

\* the server after a complete scan, answering searches
InitSearch ==
    /\ env = NoEnv
    /\ remote = InitRemote
    /\ store = ScanServers(<<>>, FILE_SERVERS)
    /\ scanning = FALSE
    /\ scan_lock = None
    /\ th = [t \in {"worker"} |-> IdleLocals]
    /\ changes = 0
    /\ dl = NoDownload
    /\ search = NoSearch
    /\ handlers = NoHandlers
    /\ fault = NoFault
    /\ strm = NoStream
    /\ req = NoRequest

\* the response has been sent
SearchReturn ==
    /\ search.pc = "done"
    /\ search' = NoSearch
    /\ UNCHANGED <<remote, store, scanning, scan_lock, th, changes, dl,
                 handlers, fault, strm, env, req>>

SearchStep ==
    \/ Search
    \/ SearchReturn

PageStep ==
    \/ FirstPage
    \/ NextPage

\* the server after a complete scan, serving downloads
InitDownload ==
    /\ env = NoEnv
    /\ remote \in {InitRemote, AliasRemote}
    /\ store = ScanServers(<<>>, FILE_SERVERS)
    /\ scanning = FALSE
    /\ scan_lock = None
    /\ th = [t \in {"worker"} |-> IdleLocals]
    /\ changes = 0
    /\ dl = NoDownload
    /\ search = NoSearch
    /\ handlers = NoHandlers
    /\ fault = NoFault
    /\ strm = NoStream
    /\ req = NoRequest

DownloadStep ==
    \/ DownloadRequest
    \/ DownloadAttempt
    \/ DownloadReturn

\* the server after a complete scan, with its download handlers idle
InitHandlers ==
    /\ env = NoEnv
    /\ remote = InitRemote
    /\ store = ScanServers(<<>>, FILE_SERVERS)
    /\ scanning = FALSE
    /\ scan_lock = None
    /\ th = [t \in {"worker"} |-> IdleLocals]
    /\ changes = 0
    /\ dl = NoDownload
    /\ search = NoSearch
    /\ handlers = [h \in 1..NumHandlers |-> IdleHandler]
    /\ fault = NoFault
    /\ strm = NoStream
    /\ req = NoRequest


Init ==
    /\ env = NoEnv
    /\ remote = InitRemote
    /\ store = <<>>
    /\ scanning = FALSE
    /\ scan_lock = None
    /\ th = [t \in {"worker"} |-> IdleLocals]
    /\ changes = 0
    /\ dl = NoDownload
    /\ search = NoSearch
    /\ handlers = NoHandlers
    /\ fault = NoFault
    /\ strm = NoStream
    /\ req = NoRequest

\* the server right after scanner.start(): the initial-scan thread is running
InitConc ==
    /\ env = NoEnv
    /\ remote = InitRemote
    /\ store = <<>>
    /\ scanning = FALSE
    /\ scan_lock = None
    /\ th = [t \in {"periodic", "initial", "api"} |->
                IF t = "initial"
                THEN [IdleLocals EXCEPT !.pc = "sas_check", !.op = "scan_all_servers"]
                ELSE IdleLocals]
    /\ changes = 0
    /\ dl = NoDownload
    /\ search = NoSearch
    /\ handlers = NoHandlers
    /\ fault = NoFault
    /\ strm = NoStream
    /\ req = NoRequest

ScannerStep ==
    \/ StartPeriodic
    \/ StartForceAll
    \/ StartForceServer
    \/ \E t \in Threads : ClearList(t)
    \/ \E t \in Threads : ClearSet(t)
    \/ \E t \in Threads : ScanAllCheck(t)
    \/ \E t \in Threads : ScanAllAcquire(t)
    \/ \E t \in Threads : ScanAllSetFlag(t)
    \/ \E t \in Threads : ScanServerList(t)
    \/ \E t \in Threads : ScanDirectoryCheck(t)
    \/ \E t \in Threads : ScanDirectoryWalk(t)
    \/ \E t \in Threads : ScanDirectorySetFiles(t)
    \/ \E t \in Threads : ScanDirectorySetMeta(t)
    \/ \E t \in Threads : ScanAllClearFlag(t)
    \/ \E t \in Threads : ScanAllRelease(t)
    \/ \E t \in Threads : Finish(t)

Next ==
    \/ ScannerStep
    \/ DownloadCount
    \/ RemoteChange

\* one step of thread t inside scan_all_servers
ScanAllStep(t) ==
    \/ ScanAllCheck(t)
    \/ ScanAllAcquire(t)
    \/ ScanAllSetFlag(t)
    \/ ScanServerList(t)
    \/ ScanDirectoryCheck(t)
    \/ ScanDirectoryWalk(t)
    \/ ScanDirectorySetFiles(t)
    \/ ScanDirectorySetMeta(t)
    \/ ScanAllClearFlag(t)
    \/ ScanAllRelease(t)
    \/ Finish(t)

(***************************************************************************)
(* The endpoints of api.py, each request handled in one step.              *)
(***************************************************************************)
API_TOKEN == <<"c", "s">>

S_server_3 == <<"s","e","r","v","e","r","_","3">>

Endpoints ==
    {"/", "/health", "/api/search", "/api/refresh", "/api/download",
     "/api/file/info", "/api/status", "/api/servers", "/api/download/check"}

\* the endpoints declared without Depends(verify_token)
OpenEndpoints == {"/", "/health"}

\* faulty variant: every credential is accepted
verify_token_Any(token) == TRUE

\* verify_token: credentials.credentials != Config.API_TOKEN raises 401
verify_token(token) == token = API_TOKEN

\* what a handler answers: the HTTP status, the catalog it leaves, the
\* background task it queued, the total of a search, the shares it tried to
\* connect to
Response(status_code, st) ==
    [status_code |-> status_code, store |-> st, task |-> "", total |-> 0,
     connects |-> {}]

\* POST /api/search: the except clause answers 500 when the catalog's search
\* raises
SearchResponse(r, st) ==
    IF r.raised THEN Response(500, st)
    ELSE [Response(200, st) EXCEPT !.total = r.total]

api_search_apk_files(st, keyword, server, order) ==
    SearchResponse(search_apk_files(st, keyword, server, S_combine, MaxLimit, 0, order), st)

\* POST /api/refresh: queues force_scan_server(server) or force_scan_all
refresh_scan(st, server) ==
    [Response(200, st) EXCEPT
        !.task = IF server # <<>> THEN "force_scan_server" ELSE "force_scan_all"]

\* retry_on_failure(max_retries=2) around download_file: the handler is run
\* again after an exception and the last exception is passed on
RECURSIVE RetryDownload(_, _, _, _)
AfterAttempt(r, server, path, attempt) ==
    IF r.raised /\ attempt < MAX_RETRIES - 1
    THEN RetryDownload(r.store, server, path, attempt + 1)
    ELSE r

RetryDownload(st, server, path, attempt) ==
    AfterAttempt(download_file(st, server, path, <<>>), server, path, attempt)

\* the response of GET /api/download to the outcome r of the handler
DownloadResponse(r, server) ==
    [Response(r.status_code, r.store) EXCEPT !.connects = Connects(server)]

\* GET /api/download
api_download_file(st, server, path) ==
    DownloadResponse(RetryDownload(st, server, path, 0), server)

\* GET /api/file/info
api_get_file_info(st, server, path) ==
    IF ServerMissing(server) THEN Response(404, st)
    ELSE IF get_client(server) # "ok"
    THEN [Response(500, st) EXCEPT !.connects = Connects(server)]
    ELSE IF ~get_file_info(server, path).exists
    THEN [Response(404, st) EXCEPT !.connects = Connects(server)]
    ELSE [Response(200, st) EXCEPT !.connects = Connects(server)]

\* GET /api/download/check: every exception, the 404 of an unknown share
\* included, is caught and reported in the body of a 200 response
check_download_capability(st, server, path) ==
    [Response(200, st) EXCEPT !.connects = Connects(server)]

\* the handler of an endpoint
Handle(endpoint, st, keyword, server, path, order) ==
    CASE endpoint = "/api/search" -> api_search_apk_files(st, keyword, server, order)
      [] endpoint = "/api/refresh" -> refresh_scan(st, server)
      [] endpoint = "/api/download" -> api_download_file(st, server, path)
      [] endpoint = "/api/file/info" -> api_get_file_info(st, server, path)
      [] endpoint = "/api/download/check" -> check_download_capability(st, server, path)
      [] OTHER -> Response(200, st)

\* the dependency verify_token runs before the handler of every endpoint
\* that declares it
Serve(endpoint, token, st, keyword, server, path, order) ==
    IF endpoint \notin OpenEndpoints /\ ~verify_token(token)
    THEN Response(401, st)
    ELSE Handle(endpoint, st, keyword, server, path, order)

\* the credentials, shares and paths the clients of the model send
Tokens == {API_TOKEN, <<"c">>, <<"C", "S">>}

ApiServers == ServerSet \cup {S_server_3}

ApiPaths ==
    {<<BS>> \o S_AppA \o <<BS>> \o S_release_apk,
     <<BS>> \o S_AppA \o <<BS>> \o S_new \o <<BS>> \o S_release_apk}

\* the parameters an endpoint takes; <<>> stands for a parameter not given
ServersFor(endpoint) ==
    CASE endpoint \in {"/api/search", "/api/refresh"} -> ApiServers \cup {<<>>}
      [] endpoint \in {"/api/download", "/api/file/info", "/api/download/check"} -> ApiServers
      [] OTHER -> {<<>>}

PathsFor(endpoint) ==
    IF endpoint \in {"/api/download", "/api/file/info", "/api/download/check"}
    THEN ApiPaths ELSE {<<>>}

KeywordsFor(endpoint) ==
    IF endpoint = "/api/search" THEN {<<>>, S_release} ELSE {<<>>}

OrdersFor(endpoint) ==
    IF endpoint = "/api/search" THEN KeyOrders ELSE {CHOOSE order \in KeyOrders : TRUE}

\* the run of the background task a served POST /api/refresh queued
StartTask(task, server) ==
    IF task = "force_scan_all"
    THEN [IdleLocals EXCEPT !.pc = "clr_list", !.op = "force_scan_all", !.si = 1]
    ELSE IF task = "force_scan_server" /\ server \in ServerSet
    THEN [IdleLocals EXCEPT !.pc = "clr_list", !.op = "force_scan_server",
                            !.si = CHOOSE i \in 1..NServers : FILE_SERVERS[i] = server]
    ELSE IdleLocals

\* the effects of the response r to a request: the catalog the handler
\* left, the background task it queued, and what the client receives
Respond(r, endpoint, token, server, path) ==
    /\ store' = r.store
    /\ th' = IF r.task = "" THEN th
             ELSE [th EXCEPT !["worker"] = StartTask(r.task, server)]
    /\ req' = [NoRequest EXCEPT !.pc = "responded", !.endpoint = endpoint,
                                !.token = token, !.server = server, !.path = path,
                                !.status_code = r.status_code, !.total = r.total,
                                !.connects = r.connects]

\* between two requests the catalog store or the second share goes down or
\* comes back
Outage ==
    /\ req.pc = "idle"
    /\ th["worker"].pc = "idle"
    /\ \E redis_down \in BOOLEAN, noconnect \in {{}, {S_server_2}} :
          /\ env' = [env EXCEPT !.redis_down = redis_down, !.noconnect = noconnect]
          /\ env' # env
    /\ UNCHANGED <<remote, store, scanning, scan_lock, th, changes, dl, search, handlers, fault, strm, req>>

\* a client sends a request and the server answers it, no background task
\* running
ApiRequest ==
    /\ req.pc = "idle"
    /\ th["worker"].pc = "idle"
    /\ MayDownload
    /\ \E endpoint \in Endpoints, token \in Tokens :
       \E server \in ServersFor(endpoint), path \in PathsFor(endpoint),
          keyword \in KeywordsFor(endpoint), order \in OrdersFor(endpoint) :
          /\ Respond(Serve(endpoint, token, store, keyword, server, path, order),
                     endpoint, token, server, path)
    /\ UNCHANGED <<remote, scanning, scan_lock, changes, dl, search, handlers, fault, strm, env>>

\* the response has been sent
ApiReturn ==
    /\ req.pc = "responded"
    /\ req' = NoRequest
    /\ UNCHANGED <<remote, store, scanning, scan_lock, th, changes, dl, search, handlers, fault, strm, env>>

\* the steps of the background task
TaskStep(t) ==
    \/ ClearList(t)
    \/ ClearSet(t)
    \/ ScanAllStep(t)

ApiStep ==
    \/ Outage
    \/ ApiRequest
    \/ ApiReturn
    \/ \E t \in Threads : TaskStep(t)

\* the server after a complete scan, answering requests
InitApi == InitSearch

SpecApi == InitApi /\ [][ApiStep]_vars

\* the names a top-level directory and the file it holds may have
DirectoryNames == {S_AppA, S_release, S_DEBUG}

FileNames ==
    {S_release_apk, S_debug_apk, S_x_APK, S_Debug_RELEASE_apk, S_app_DEBUG_apk,
     S_releas_debu_apk, S_re_lease_APK}

\* the server right after scanner.start(), the first share holding one
\* or two files, in a directory and in a subdirectory, of any of these names
InitNames ==
    /\ env = NoEnv
    /\ \E d \in DirectoryNames, sub \in DirectoryNames, f \in FileNames, g \in FileNames :
          remote = [InitRemote EXCEPT ![S_server_1] =
                       [dirs |-> {<<>>, <<S_apks>>, <<S_apks, d>>, <<S_apks, d, sub>>},
                        files |-> {<<S_apks, d, f>>, <<S_apks, d, sub, g>>}]]
    /\ store = <<>>
    /\ scanning = FALSE
    /\ scan_lock = None
    /\ th = [t \in {"initial"} |->
                [IdleLocals EXCEPT !.pc = "sas_check", !.op = "scan_all_servers"]]
    /\ changes = 0
    /\ dl = NoDownload
    /\ search = NoSearch
    /\ handlers = NoHandlers
    /\ fault = NoFault
    /\ strm = NoStream
    /\ req = NoRequest

NamesStep == \E t \in Threads : ScanAllStep(t)

\* the initial scan over shares whose files have any of the names
SpecNames == InitNames /\ [][NamesStep]_vars

(***************************************************************************)
(* increment_download_count on the event loop while a scanner thread       *)
(* rescans: its HGET and its HSET are two commands of the store.           *)
(***************************************************************************)
\* the server after a complete scan
InitRace == InitSearch

\* increment_download_count: files = self.get_apk_files(server_name, directory)
IncrementRead ==
    /\ req.pc = "idle"
    /\ \E server \in ServerSet, directory \in {S_AppA, S_AppB, S_AppC} :
          \E i \in 1..Len(get_apk_files(store, server, directory)) :
             LET file == get_apk_files(store, server, directory)[i]
             IN  /\ file.download_time < MaxDownloads
                 /\ req' = [NoRequest EXCEPT
                               !.pc = "inc_write", !.server = server,
                               !.directory = directory, !.path = file.relative_path,
                               !.files = get_apk_files(store, server, directory)]
    /\ UNCHANGED <<remote, store, scanning, scan_lock, th, changes, dl, search, handlers, fault, strm, env>>

\* increment_download_count: the loop, then self.set_apk_files(server_name,
\* directory, files)
IncrementWrite ==
    /\ req.pc = "inc_write"
    /\ store' = set_apk_files(store, req.server, req.directory,
                              Bumped(req.files, req.path))
    /\ req' = [req EXCEPT !.pc = "inc_done"]
    /\ UNCHANGED <<remote, scanning, scan_lock, th, changes, dl, search, handlers, fault, strm, env>>

\* increment_download_count has returned
IncrementReturn ==
    /\ req.pc = "inc_done"
    /\ req' = NoRequest
    /\ UNCHANGED <<remote, store, scanning, scan_lock, th, changes, dl, search, handlers, fault, strm, env>>

RaceStep ==
    \/ RemoteChange
    \/ StartForceServer
    \/ \E t \in Threads : TaskStep(t)
    \/ IncrementRead
    \/ IncrementWrite
    \/ IncrementReturn

SpecRace == InitRace /\ [][RaceStep]_vars

\* the directories whose listing may fail
FailingDirectories ==
    {<<S_server_1, S_AppA>>, <<S_server_1, S_AppB>>, <<S_server_2, S_AppC>>}

\* the shares and directories that fail while the scanner runs
FailEnvs ==
    {e \in [noconnect : SUBSET ServerSet, nolist : SUBSET ServerSet,
            bad : SUBSET FailingDirectories, hung : {{}}, redis_down : {FALSE}] :
        e.noconnect \cap e.nolist = {}}

\* the server with an empty catalog and some of its shares failing
InitFail ==
    /\ remote = InitRemote
    /\ store = <<>>
    /\ scanning = FALSE
    /\ scan_lock = None
    /\ th = [t \in {"worker"} |-> IdleLocals]
    /\ changes = 0
    /\ dl = NoDownload
    /\ search = NoSearch
    /\ handlers = NoHandlers
    /\ fault = NoFault
    /\ strm = NoStream
    /\ env \in FailEnvs
    /\ req = NoRequest

\* the scanner over shares some of which fail
SpecFail == InitFail /\ [][ScannerStep]_vars

\* the server after a complete scan of the healthy shares, some of which
\* then fail
InitFailLater ==
    /\ env \in FailEnvs
    /\ remote = InitRemote
    /\ store = ScanServers(<<>>, FILE_SERVERS)
    /\ scanning = FALSE
    /\ scan_lock = None
    /\ th = [t \in {"worker"} |-> IdleLocals]
    /\ changes = 0
    /\ dl = NoDownload
    /\ search = NoSearch
    /\ handlers = NoHandlers
    /\ fault = NoFault
    /\ strm = NoStream
    /\ req = NoRequest

\* the scanner over an indexed catalog and shares some of which fail
SpecFailLater == InitFailLater /\ [][ScannerStep]_vars

\* the connection to the catalog store is lost or comes back
StoreFlap ==
    /\ env' = [env EXCEPT !.redis_down = ~@]
    /\ UNCHANGED <<remote, store, scanning, scan_lock, th, changes, dl, search, handlers, fault, strm, req>>

FlapStep ==
    \/ ScannerStep
    \/ RemoteChange
    \/ StoreFlap

\* the scanner over an indexed catalog whose store comes and goes
SpecFlap == InitSearch /\ [][FlapStep]_vars

\* the server right after scanner.start(), with at most one share whose
\* remote calls never return
InitHang ==
    /\ remote = InitRemote
    /\ store = <<>>
    /\ scanning = FALSE
    /\ scan_lock = None
    /\ th = [t \in {"periodic", "initial"} |->
                IF t = "initial"
                THEN [IdleLocals EXCEPT !.pc = "sas_check", !.op = "scan_all_servers"]
                ELSE IdleLocals]
    /\ changes = 0
    /\ dl = NoDownload
    /\ search = NoSearch
    /\ handlers = NoHandlers
    /\ fault = NoFault
    /\ strm = NoStream
    /\ \E hung \in {{}} \cup {{server} : server \in ServerSet} :
          env = [NoEnv EXCEPT !.hung = hung]
    /\ req = NoRequest

HangStep ==
    \/ StartPeriodic
    \/ \E t \in Threads : ScanAllStep(t)

\* the steps of scan_all_servers outside scan_directory's reads of the share
ControlStep(t) ==
    \/ ScanAllCheck(t)
    \/ ScanAllAcquire(t)
    \/ ScanAllSetFlag(t)
    \/ ScanServerList(t)
    \/ ScanDirectorySetFiles(t)
    \/ ScanDirectorySetMeta(t)
    \/ ScanAllClearFlag(t)
    \/ ScanAllRelease(t)
    \/ Finish(t)

\* every thread that can run does run, and the scheduler keeps firing the
\* periodic job.  A thread about to read a directory (sd_check, sd_walk) can
\* always take that step, so its fairness there is that it does not stay.
SpecHang ==
    /\ InitHang
    /\ [][HangStep]_vars
    /\ WF_vars(StartPeriodic)
    /\ \A t \in {"periodic", "initial"} :
          /\ WF_vars(ControlStep(t))
          /\ []<>(th[t].pc # "sd_check")
          /\ []<>(th[t].pc # "sd_walk")

\* the scanner's threads, the shares changing and files being downloaded
Spec == Init /\ [][Next]_vars

\* the scanner's three threads over shares that do not change
SpecConc == InitConc /\ [][ScannerStep]_vars

\* downloads served from a scanned catalog
SpecDownload == InitDownload /\ [][DownloadStep]_vars

\* searches answered from a scanned catalog
SpecSearch == InitSearch /\ [][SearchStep]_vars

\* one stream of download_file_stream_smbclient and its consumer
SpecStream == Init /\ [][StreamStep]_vars

\* concurrent downloads of one file
SpecHandlers == InitHandlers /\ [][HandlerStep]_vars

\* listings read page by page from a scanned catalog
SpecPages == InitSearch /\ [][PageStep]_vars


(***************************************************************************)
(* The scanner's claims.                                                   *)
(***************************************************************************)
\* what the share holds, read off the tree itself
SubdirsOnShare(server, directory) ==
    {q \in remote[server].dirs :
        Len(q) = 3 /\ q[1] = BasePath(server) /\ q[2] = directory}

ApkPathsOnShare(server, directory) ==
    {<<BS>> \o q[2] \o (IF Len(q) = 4 THEN <<BS>> \o q[3] ELSE <<>>) \o <<BS>> \o Last(q) :
        q \in {f \in remote[server].files :
                  /\ Len(f) \in {3, 4}
                  /\ f[1] = BasePath(server)
                  /\ f[2] = directory
                  /\ Len(Last(f)) >= 4
                  /\ Lower(SubSeq(Last(f), Len(Last(f)) - 3, Len(Last(f)))) = S_dot_apk}}

HasCachedCount(server, directory) ==
    /\ HHas(store, MetaKey(server), directory)
    /\ "subdir_count" \in DOMAIN store[MetaKey(server)][directory]

StoredCount(server, directory) == store[MetaKey(server)][directory].subdir_count

Unchanged(server, directory) ==
    /\ HasCachedCount(server, directory)
    /\ StoredCount(server, directory) # -1
    /\ StoredCount(server, directory) = Cardinality(SubdirsOnShare(server, directory))

\* C1: a scan_directory call that finds the number of immediate
\* sub-directories equal to the cached subdir_count, the cached value not
\* being -1, makes no recursive walk and writes neither the file list nor the
\* DirectoryMeta.
C1_SkipWritesNothing ==
    [][\A t \in Threads :
          (/\ th[t].pc = "sd_check"
           /\ th'[t] # th[t]
           /\ Unchanged(Server(t), Directory(t)))
          => /\ store' = store
             /\ th'[t].pc \notin {"sd_walk", "sd_setfiles", "sd_setmeta"}
             /\ th'[t].apks = <<>>
             /\ th'[t].skip]_vars

\* C1's case: a directory has just been skipped
C1_Witness == \E t \in Threads : th[t].skip /\ th[t].pc \in {"sd_check", "ss_list"}

\* C2: when the directory has no cached meta, or the cached subdir_count is
\* -1 or differs from the current count, scan_directory walks the whole
\* subtree, replaces the stored file list by what the walk found and then
\* stores a meta with the current count and the number of records written.
C2_ChangeRescans ==
    [][\A t \in Threads :
          th'[t] # th[t] =>
             /\ (th[t].pc = "sd_check" /\ ~Unchanged(Server(t), Directory(t)))
                => /\ th'[t].pc = "sd_walk"
                   /\ th'[t].cur = Cardinality(SubdirsOnShare(Server(t), Directory(t)))
             /\ th[t].pc = "sd_walk"
                => /\ th'[t].pc = "sd_setfiles"
                   /\ {th'[t].apks[i].relative_path : i \in 1..Len(th'[t].apks)}
                         = ApkPathsOnShare(Server(t), Directory(t))
                   /\ Len(th'[t].apks) = Cardinality(ApkPathsOnShare(Server(t), Directory(t)))
             /\ th[t].pc = "sd_setfiles"
                => /\ th'[t].pc = "sd_setmeta"
                   /\ HHas(store', FilesKey(Server(t), Directory(t)), S_files)
                   /\ store'[FilesKey(Server(t), Directory(t))][S_files] = th[t].apks
             /\ th[t].pc = "sd_setmeta"
                => /\ HHas(store', MetaKey(Server(t)), Directory(t))
                   /\ store'[MetaKey(Server(t))][Directory(t)].subdir_count = th[t].cur
                   /\ store'[MetaKey(Server(t))][Directory(t)].files_count
                         = Len(th[t].apks)]_vars

\* C2's case: a directory whose count had changed has been rescanned and its
\* meta stored
C2_Witness ==
    \E server \in ServerSet :
       /\ HasCachedCount(server, S_AppA)
       /\ StoredCount(server, S_AppA) = 0
       /\ store[MetaKey(server)][S_AppA].files_count = 1
       /\ Len(store[FilesKey(server, S_AppA)][S_files]) = 1

\* C3: a rescan keeps download_time and md5 of every record whose
\* relative_path is in the catalog before and after it.
C3_RescanKeepsCounters ==
    [][\A t \in Threads :
          (th[t].pc = "sd_setfiles" /\ th'[t].pc = "sd_setmeta")
          => LET old == get_apk_files(store, Server(t), Directory(t))
                 new == get_apk_files(store', Server(t), Directory(t))
             IN  \A i \in 1..Len(old), j \in 1..Len(new) :
                    old[i].relative_path = new[j].relative_path
                    => /\ new[j].download_time = old[i].download_time
                       /\ new[j].md5 = old[i].md5]_vars

\* C4: no two scans of the same share ever run at the same time.
C4_OneScanPerShare ==
    \A t1, t2 \in Threads :
       (t1 # t2 /\ th[t1].pc \in InScanServer /\ th[t2].pc \in InScanServer)
       => Server(t1) # Server(t2)

\* C5: a scan_all_servers call that makes its check while another call holds
\* the scan lock is dropped: it never goes on to take the lock and scan.
C5_SecondTriggerDropped == \A t \in Threads : th[t].queued => scan_lock # t

\* C6: when a force scan returns, every directory whose cached count it reset
\* to -1 has been walked by it.
C6_ForceScanWalksAll ==
    \A t \in Threads :
       (th[t].pc = "done" /\ th[t].op \in {"force_scan_all", "force_scan_server"})
       => th[t].pending = {}

\* the file a download request names: the share root's path followed by the
\* request's path
RequestedPath == UncPath(ConfigPath(dl.server) \o dl.path)

RequestedExists == RequestedPath \in remote[dl.server].files

RequestedSize == Len(FileBytes(RequestedPath))

\* the size resolution of the handler found the size of the requested file
SizeKnown == FileSize(dl.server, dl.path) > 0

\* the request carries the header "bytes=a-b"
AsksRange(a, b) == dl.range_header = S_bytes_eq \o Str(a) \o <<"-">> \o Str(b)

\* C7: a request with Range bytes=a-b, 0 <= a <= b < S, for a file of known
\* size S is answered 206 with Content-Range "bytes a-b/S", Content-Length
\* b-a+1 and a body of exactly the bytes a..b of the requested file.
C7_RangeServed ==
    (dl.pc = "responded" /\ RequestedExists /\ fault = NoFault)
    => \A a, b \in 0..9 :
          (AsksRange(a, b) /\ a <= b /\ b < RequestedSize)
          => /\ dl.status_code = 206
             /\ dl.headers["Content-Range"] =
                   S_bytes_sp \o Str(a) \o <<"-">> \o Str(b) \o <<"/">> \o Str(RequestedSize)
             /\ dl.headers["Content-Length"] = Str(b - a + 1)
             /\ dl.body = SubSeq(FileBytes(RequestedPath), a + 1, b + 1)

\* C8: a request whose range has start >= S, end >= S or start > end, for a
\* file of known size S, is answered 416 with Content-Range "bytes */S", and
\* the catalog's download counts are what they were when it arrived.
C8_UnsatisfiableRange ==
    (dl.pc = "responded" /\ RequestedExists /\ SizeKnown)
    => /\ \A a, b \in 0..9 :
          (AsksRange(a, b) /\ (a >= RequestedSize \/ b >= RequestedSize \/ a > b))
          => /\ dl.status_code = 416
             /\ dl.headers = ("Content-Range" :>
                                 (S_bytes_sp \o <<"*", "/">> \o Str(RequestedSize)))
             /\ store = dl.store0
       /\ \A a \in 0..9 :
             (dl.range_header = S_bytes_eq \o Str(a) \o <<"-">> /\ a >= RequestedSize)
             => /\ dl.status_code = 416
                /\ dl.headers = ("Content-Range" :>
                                    (S_bytes_sp \o <<"*", "/">> \o Str(RequestedSize)))
                /\ store = dl.store0

C8_Witness ==
    /\ dl.pc = "responded"
    /\ RequestedExists
    /\ SizeKnown
    /\ fault.query_info
    /\ dl.attempt = MAX_RETRIES
    /\ \E a, b \in 0..9 : AsksRange(a, b) /\ a >= RequestedSize /\ a <= b
    /\ dl.status_code = 416

\* the non-empty trimmed terms of a keyword expression: each is a maximal
\* run without '|', less the white space at its two ends
TermsOf(expr) ==
    {SubSeq(expr, k, l) : <<k, l>> \in
        {w \in (1..Len(expr)) \X (1..Len(expr)) :
            /\ w[1] <= w[2]
            /\ \A m \in w[1]..w[2] : expr[m] # "|"
            /\ expr[w[1]] \notin WhiteSpace /\ expr[w[2]] \notin WhiteSpace
            /\ \E i \in 1..w[1], j \in w[2]..Len(expr) :
                  /\ i = 1 \/ expr[i - 1] = "|"
                  /\ j = Len(expr) \/ expr[j + 1] = "|"
                  /\ \A m \in i..(w[1] - 1) : expr[m] \in WhiteSpace
                  /\ \A m \in (w[2] + 1)..j : expr[m] \in WhiteSpace}}

\* the records a search looked at, and those it let through
Looked == {search.all_files[i] : i \in 1..Len(search.all_files)}

Returned == {search.filtered_files[i] : i \in 1..Len(search.filtered_files)}

PassesBuildFilter(file) ==
    search.build_type = S_combine \/ file.build_type = search.build_type

HasTerm(text, term) == Contains(Lower(text), Lower(term))

\* C9 as stated: a record passes the keyword filter iff every term is a
\* case-insensitive substring of its file name followed directly by its
\* relative path.
C9_TermsInNamePath ==
    search.pc = "done"
    => \A file \in Looked :
          PassesBuildFilter(file)
          => (file \in Returned
              <=> \A term \in TermsOf(search.keyword) :
                     HasTerm(file.file_name \o file.relative_path, term))

\* C9, amended: a record passes the keyword filter iff every non-empty
\* trimmed term of the expression is a case-insensitive substring of its file
\* name, one space and its relative path, joined in that order; an expression
\* without such a term lets every record pass.
C9_TermsInNameSpacePath ==
    search.pc = "done"
    => \A file \in Looked :
          PassesBuildFilter(file)
          => (file \in Returned
              <=> \A term \in TermsOf(search.keyword) :
                     HasTerm(file.file_name \o <<" ">> \o file.relative_path, term))

C9_Witness ==
    /\ search.pc = "done"
    /\ Cardinality(TermsOf(search.keyword)) = 2
    /\ Returned # {}
    /\ \E file \in Looked \ Returned :
          /\ PassesBuildFilter(file)
          /\ \E term \in TermsOf(search.keyword) :
                HasTerm(file.file_name \o <<" ">> \o file.relative_path, term)

\* C10: under build filter 'combine' no record is held back for its build
\* type; under any other value only records whose build_type equals the
\* value are returned.
C10_BuildFilter ==
    search.pc = "done"
    => \A file \in Looked :
          /\ search.build_type = S_combine
             => (file \in Returned
                 <=> \A term \in TermsOf(search.keyword) :
                        HasTerm(file.file_name \o <<" ">> \o file.relative_path, term))
          /\ search.build_type # S_combine
             => (file \in Returned => file.build_type = search.build_type)

C10_Witness ==
    /\ search.pc = "done"
    /\ search.build_type = S_unknown
    /\ Returned # {}
    /\ \E file \in Looked \ Returned : file.build_type # S_unknown
    /\ \A file \in Returned : file.build_type = S_unknown

\* a record passes both filters of the search last answered
PassesFilters(file) ==
    /\ PassesBuildFilter(file)
    /\ \A term \in TermsOf(search.keyword) :
          HasTerm(file.file_name \o <<" ">> \o file.relative_path, term)

NonIncreasing(files) ==
    \A i, j \in 1..Len(files) : i < j => files[i].created_time >= files[j].created_time

\* C11: the records of a search response are in non-increasing created_time
\* order, and its total is the number of catalog records that pass the
\* keyword and build filters, whatever limit and offset were given.
C11_SortedAndTotal ==
    search.pc = "done"
    => /\ NonIncreasing(search.items)
       /\ NonIncreasing(search.filtered_files)
       /\ search.total =
             Cardinality({i \in 1..Len(search.all_files) : PassesFilters(search.all_files[i])})

C11_Witness ==
    /\ search.pc = "done"
    /\ search.limit = 2 /\ search.offset = 1
    /\ search.total = 4
    /\ Len(search.items) = 2
    /\ search.items[1].created_time > search.items[2].created_time

\* the client holds the last page of the listing
LastPage == search.pc = "paging" /\ search.offset + search.limit >= search.total

\* C12: the pages at offsets 0, limit, 2*limit, ... of one query over one
\* catalog, joined, hold every filtered record exactly once and in sorted
\* order, whatever order the store lists its keys in on each call.
C12_PagesReconstruct ==
    LastPage
    => /\ NonIncreasing(search.collected)
       /\ \A i, j \in 1..Len(search.collected) :
             search.collected[i] = search.collected[j] => i = j
       /\ {search.collected[i] : i \in 1..Len(search.collected)}
             = {file \in Looked : PassesFilters(file)}

\* the record a download request names, in a catalog
IsRequested(file) ==
    file.server_prefix = ConfigPath(dl.server) /\ file.relative_path = dl.path

FileLists(st) == {key \in DOMAIN st : S_files \in DOMAIN st[key]}

Catalogued(st) ==
    \E key \in FileLists(st) :
       \E i \in 1..Len(st[key][S_files]) : IsRequested(st[key][S_files][i])

\* C13: a resolved download of a catalogued file raises the download_time of
\* the record with the requested relative_path by exactly one and leaves
\* every other record, and everything else in the store, as it was.
C13_CountsOneRecord ==
    (dl.pc = "responded" /\ dl.status_code \in {200, 206} /\ Catalogued(dl.store0))
    => /\ DOMAIN store = DOMAIN dl.store0
       /\ \A key \in DOMAIN store :
             /\ DOMAIN store[key] = DOMAIN dl.store0[key]
             /\ \A field \in DOMAIN store[key] :
                   IF key \in FileLists(dl.store0) /\ field = S_files
                   THEN /\ Len(store[key][field]) = Len(dl.store0[key][field])
                        /\ \A i \in 1..Len(store[key][field]) :
                              store[key][field][i] =
                                 IF IsRequested(dl.store0[key][field][i])
                                 THEN [dl.store0[key][field][i] EXCEPT !.download_time = @ + 1]
                                 ELSE dl.store0[key][field][i]
                   ELSE store[key][field] = dl.store0[key][field]

C13_Witness ==
    /\ dl.pc = "responded"
    /\ dl.status_code = 200
    /\ Catalogued(dl.store0)
    /\ dl.path = <<BS>> \o S_AppA \o <<BS>> \o S_sub \o <<BS>> \o S_debug_apk
    /\ \E i \in 1..2 : /\ IsRequested(get_apk_files(store, S_server_1, S_AppA)[i])
                       /\ get_apk_files(store, S_server_1, S_AppA)[i].download_time = 1

\* the download_time of the shared file's record
SharedCount ==
    LET files == get_apk_files(store, SharedServer, S_AppA)
    IN  files[CHOOSE i \in 1..Len(files) : files[i].relative_path = SharedPath].download_time

Resolved == {h \in 1..NumHandlers : handlers[h].status_code \in {200, 206}}

\* C14: once all the requests for one catalogued file have been answered,
\* its download_time has grown by the number of them that were resolved,
\* however the handlers were interleaved.
C14_CountsEveryDownload ==
    (\A h \in 1..NumHandlers : handlers[h].pc = "responded")
    => SharedCount = Cardinality(Resolved)

C14_Witness ==
    /\ \A h \in 1..NumHandlers : handlers[h].pc = "responded"
    /\ Cardinality(Resolved) = NumHandlers
    /\ \E h \in Resolved : handlers[h].status_code = 206
    /\ SharedCount = NumHandlers

\* what the share answered to the opens of the stream, in order
OpenEvents ==
    SelectSeq(strm.log,
              LAMBDA e : e \in {"open_ok", "open_lock", "open_timeout", "open_fatal"})

\* the answers that are failures, and those that are lock contention
Failures ==
    {strm.log[i] : i \in 1..Len(strm.log)}
       \cap {"acc_no", "open_lock", "open_timeout", "open_fatal", "read_lock",
             "read_fatal", "copy_fail", "tmp_read_fatal"}

\* C15: when the open fails with lock contention three times running and
\* nothing else fails, the stream goes on to a fourth attempt, and when that
\* open succeeds it delivers exactly the file's bytes, once and in order,
\* and ends without an error.
C15_ThreeLocksThenSuccess ==
    /\ (OpenEvents = <<"open_lock", "open_lock", "open_lock">>
        /\ Failures = {"open_lock"})
       => strm.pc \in {"check", "open"}
    /\ (OpenEvents = <<"open_lock", "open_lock", "open_lock", "open_ok">>
        /\ Failures = {"open_lock"} /\ strm.pc = "ended" /\ strm.ended # "abandoned")
       => (strm.ended = "complete" /\ strm.delivered = FileBytes(strm.path))

C15_Witness ==
    /\ OpenEvents = <<"open_lock", "open_lock", "open_lock", "open_ok">>
    /\ Failures = {"open_lock"}
    /\ strm.ended = "complete"
    /\ strm.delivered = FileBytes(strm.path)
    /\ Len(strm.delivered) = 6

\* C16: when nothing but lock contention troubles the stream, an error
\* reaches the consumer only after the copy of the fallback has failed too,
\* and contention that outlasts the retries leads to the fallback, whether
\* the accessibility check or the open or read met it.
C16_ErrorOnlyAfterFallback ==
    (strm.pc = "ended" /\ Failures \subseteq {"acc_no", "open_lock", "read_lock", "copy_fail"})
    => (strm.ended = "error" => "copy_fail" \in Failures)

PlainRequest ==
    /\ dl.pc = "responded"
    /\ dl.range_header = <<>>
    /\ RequestedExists
    /\ file_exists(dl.server, dl.path)

\* C18: when the high-level stream of a download without Range fails, at
\* its creation or at the first open or read, the low-level stream is tried,
\* so that the client receives the file whenever the low-level stream can
\* read it.
C18_FallsBackOnStreamFailure ==
    (PlainRequest /\ (fault.config \/ fault.access \/ fault.open))
    => /\ dl.status_code = 200
       /\ dl.body = download_file_stream(dl.server, dl.path).body
       /\ ~dl.stream_error

\* every method of the size resolution fails
SizeUnresolved == fault.query_info /\ fault.stat

\* C19: when the file exists and every method of the size resolution fails,
\* the request is answered with status 200, whatever Range it carries, and
\* without a Range header the response has no Content-Length.
C19_UnknownSizeServed ==
    (dl.pc = "responded" /\ file_exists(dl.server, dl.path) /\ SizeUnresolved)
    => /\ dl.status_code = 200
       /\ dl.range_header = <<>> => "Content-Length" \notin DOMAIN dl.headers

C19_Witness ==
    /\ PlainRequest
    /\ SizeUnresolved
    /\ dl.status_code = 200
    /\ DOMAIN dl.headers = {"Transfer-Encoding"}
    /\ dl.body = FileBytes(RequestedPath)

\* the request carries the header "bytes=a-"
AsksFrom(a) == dl.range_header = S_bytes_eq \o Str(a) \o <<"-">>

\* C20: when the size is unknown and the request carries Range bytes=a- or
\* bytes=a-b, the body is the file's stream less its first a bytes.
C20_RangeSkipsToStart ==
    (/\ dl.pc = "responded" /\ RequestedExists /\ file_exists(dl.server, dl.path)
     /\ SizeUnresolved /\ ~fault.access /\ ~fault.open)
    => \A a \in 0..9 :
          (a < RequestedSize /\ (AsksFrom(a) \/ \E b \in a..9 : AsksRange(a, b)))
          => dl.body = SubSeq(FileBytes(RequestedPath), a + 1, RequestedSize)

\* the records of the requested file in the catalog
RequestedRecords ==
    {store[key][S_files][i] :
        <<key, i>> \in {ki \in FileLists(store) \X (1..9) :
                          /\ ki[2] <= Len(store[ki[1]][S_files])
                          /\ IsRequested(store[ki[1]][S_files][ki[2]])}}

\* the response carried the whole file to its end
FullyStreamed ==
    /\ dl.status_code = 200
    /\ ~dl.stream_error
    /\ dl.body = FileBytes(RequestedPath)

\* C21: after a download the record's md5 is set if and only if the
\* download was a full, non-range one streamed to its end.
C21_HashAfterFullDownload ==
    (dl.pc = "responded" /\ dl.status_code \in {200, 206} /\ RequestedExists
        /\ Catalogued(dl.store0))
    => \A file \in RequestedRecords : (file.md5 # None) <=> FullyStreamed

\* C22: when the stream raises after the response has started, the response
\* generator ends there without passing the exception on, and the client
\* has received a prefix of what the stream produced.
C22_StreamErrorTruncates ==
    (strm.pc = "ended" /\ strm.ended = "error")
    => /\ strm.response = "truncated"
       /\ Len(strm.sent) <= Len(strm.delivered)
       /\ strm.sent = SubSeq(strm.delivered, 1, Len(strm.sent))

C22_Witness ==
    /\ strm.pc = "ended"
    /\ strm.ended = "error"
    /\ strm.sent # <<>>
    /\ strm.response = "truncated"

\* the worker's call of scan_all_servers (directly or by force_scan_all) has
\* returned
ScanAllReturned ==
    /\ th["worker"].pc = "done"
    /\ th["worker"].op \in {"scan_all_servers", "force_scan_all"}

\* the catalog holds what a scan of directory on server finds
ScannedNow(server, directory) ==
    /\ get_apk_files(store, server, directory) = scan_apk_files(server, directory)
    /\ CachedCount(get_directory_meta(store, server, directory))
          = get_directory_file_count(server, directory)

\* C23: when scan_all_servers returns, every directory that did not fail, of
\* every share that could be connected to and listed, has been scanned,
\* whichever directories and shares failed; no error has left the call, the
\* scanning flag is false and the lock is free.
C23_FailuresDoNotAbort ==
    ScanAllReturned
    => /\ ~th["worker"].raised
       /\ ~scanning
       /\ scan_lock = None
       /\ \A server \in ServerSet \ (env.noconnect \cup env.nolist) :
             \A i \in 1..Len(list_directories(server, <<>>)) :
                LET directory == list_directories(server, <<>>)[i]
                IN  ~DirectoryFails(server, directory) => ScannedNow(server, directory)

C23_Witness ==
    /\ ScanAllReturned
    /\ env.noconnect = {S_server_1}
    /\ env.bad = {}
    /\ ScannedNow(S_server_2, S_AppC)
    /\ ~scanning

\* a later directory and a later share are scanned after an earlier failed
C23_WitnessLater ==
    /\ ScanAllReturned
    /\ env.nolist = {}
    /\ env.noconnect = {}
    /\ env.bad = {<<S_server_1, S_AppA>>}
    /\ ScannedNow(S_server_1, S_AppB)
    /\ ScannedNow(S_server_2, S_AppC)

\* every directory of every share that answers is in the catalog
OthersScanned ==
    \A server \in ServerSet \ env.hung :
       \A i \in 1..Len(list_directories(server, <<>>)) :
          ScannedNow(server, list_directories(server, <<>>)[i])

\* C24: when the remote calls on one share never return, the other shares
\* are eventually scanned all the same, and the scanning flag does not stay
\* set for ever, so that later triggers still scan: again and again the
\* scanner is not scanning and the shares that answer are in the catalog.
C24_HangDoesNotStarve == []<>(~scanning /\ OthersScanned)

\* a request to the named endpoints has just been answered
Answers(endpoints) ==
    req.pc = "idle" /\ req'.pc = "responded" /\ req'.endpoint \in endpoints

\* C25: a download or file-info request naming a share that is not
\* configured is answered 404, with no connection attempt and no write to the
\* catalog; one for a file missing on a configured share that can be
\* connected to is answered 404 too.
C25_NotFound ==
    [][(Answers({"/api/download", "/api/file/info"}) /\ req'.token = API_TOKEN)
       => /\ req'.server \notin ServerSet
             => /\ req'.status_code = 404
                /\ req'.connects = {}
                /\ store' = store
          /\ (/\ req'.server \in ServerSet
              /\ ~ConnectFails(req'.server)
              /\ ~file_exists(req'.server, req'.path))
             => req'.status_code = 404]_vars

\* both endpoints have answered a request for an unknown share / for a
\* missing file
C25_Witness ==
    /\ req.pc = "responded"
    /\ req.endpoint = "/api/download"
    /\ req.token = API_TOKEN
    /\ req.server = S_server_3
    /\ req.status_code = 404

C25_WitnessMissing ==
    /\ req.pc = "responded"
    /\ req.endpoint = "/api/file/info"
    /\ req.token = API_TOKEN
    /\ req.server = S_server_1
    /\ ~file_exists(req.server, req.path)
    /\ req.status_code = 404

\* C26: when the catalog store cannot be reached, the search endpoint
\* answers with an error status, never with a successful response.
C26_SearchFailsLoudly ==
    (/\ req.pc = "responded"
     /\ req.endpoint = "/api/search"
     /\ req.token = API_TOKEN
     /\ env.redis_down)
    => req.status_code >= 400

\* C27: a request to an endpoint other than '/' and '/health' whose token
\* differs from the configured one is answered 401, and it changes nothing
\* of the catalog or the scanner and connects to no share.
C27_TokenRequired ==
    [][(Answers(Endpoints \ OpenEndpoints) /\ req'.token # API_TOKEN)
       => /\ req'.status_code = 401
          /\ req'.connects = {}
          /\ req'.total = 0
          /\ store' = store
          /\ th' = th
          /\ scanning' = scanning
          /\ scan_lock' = scan_lock]_vars

\* a download with a wrong token has been refused on a server where the same
\* download with the right token is served
C27_Witness ==
    /\ req.pc = "responded"
    /\ req.endpoint = "/api/download"
    /\ req.token # API_TOKEN
    /\ req.status_code = 401
    /\ download_file(store, req.server, req.path, <<>>).status_code = 200

C27_WitnessRefresh ==
    /\ req.pc = "responded"
    /\ req.endpoint = "/api/refresh"
    /\ req.token # API_TOKEN
    /\ req.status_code = 401

\* the records of the store, each with the key of its bucket
StoredRecords ==
    UNION {{<<key, store[key][S_files][i]>> : i \in 1..Len(store[key][S_files])} :
              key \in FileLists(store)}

\* the key of the bucket of the top-level directory that is the first
\* segment of the record's relative_path, on the record's share
HomeKey(file) ==
    LET server == CHOOSE sv \in ServerSet : ConfigPath(sv) = file.server_prefix
    IN  S_apk_finder \o <<":">> \o server \o <<":">>
        \o Split(file.relative_path, BS)[2]

\* C28: after any sequence of scans, force scans and download-counter
\* updates, every stored record is in the bucket of the top-level directory
\* that is the first segment of its relative_path and in no other bucket.
C28_OneBucketPerRecord ==
    \A kf \in StoredRecords :
        /\ kf[1] = HomeKey(kf[2])
        /\ \A other \in StoredRecords :
              (/\ other[2].relative_path = kf[2].relative_path
               /\ other[2].server_prefix = kf[2].server_prefix)
              => other[1] = kf[1]

\* the catalog holds a record found below a subdirectory and a record whose
\* downloads have been counted, after a force scan and a change of the share
C28_Witness ==
    /\ changes > 0
    /\ \E t \in Threads : th[t].op \in {"force_scan_all", "force_scan_server"}
    /\ \E kf \in StoredRecords : Len(Split(kf[2].relative_path, BS)) > 3
    /\ \E kf \in StoredRecords : kf[2].download_time > 0

\* the upper-case letter of a lower-case one
UpperOf(c) == UpperChars[CHOOSE j \in 1..Len(LowerChars) : LowerChars[j] = c]

\* name holds the lower-case word, each letter in either case
HasWord(name, word) ==
    \E i \in 1..(Len(name) - Len(word) + 1) :
        \A k \in 1..Len(word) : name[i + k - 1] \in {word[k], UpperOf(word[k])}

\* C29: a scanned record's build_type is 'release' if its file name holds
\* 'release' in any case, else 'debug' if it holds 'debug', else 'unknown',
\* whatever the names of the directories above it.
C29_BuildTypeFromName ==
    \A kf \in StoredRecords :
        kf[2].build_type =
            IF HasWord(kf[2].file_name, S_release) THEN S_release
            ELSE IF HasWord(kf[2].file_name, S_debug) THEN S_debug
            ELSE S_unknown

\* the catalog holds a file named with both words, classified release, and
\* a file below a directory named release that is not classified release
C29_Witness ==
    /\ \E kf \in StoredRecords :
          /\ HasWord(kf[2].file_name, S_release)
          /\ HasWord(kf[2].file_name, S_debug)
          /\ kf[2].build_type = S_release
    /\ \E kf \in StoredRecords :
          /\ HasWord(kf[2].relative_path, S_release)
          /\ kf[2].build_type # S_release

\* the relative paths of a list of records, in its order
PathsOf(files) == [i \in 1..Len(files) |-> files[i].relative_path]

\* increment_download_count for a file has returned and a rescan of the
\* file's directory has written the list it found
BothWritten ==
    /\ req.pc = "inc_done"
    /\ th["worker"].pc = "sd_setmeta"
    /\ Server("worker") = req.server
    /\ Directory("worker") = req.directory

\* C30: when increment_download_count and a rescan of the file's directory
\* have both written, whatever their interleaving, the stored list holds
\* exactly the records the rescan found.
C30_RescanNotOverwritten ==
    BothWritten
    => PathsOf(get_apk_files(store, req.server, req.directory))
       = PathsOf(th["worker"].apks)

\* thread t takes a step of scan_directory on a directory whose listing fails
FailingScanStep(t) ==
    /\ th[t].pc \in {"sd_check", "sd_walk", "sd_setfiles", "sd_setmeta"}
    /\ th'[t] # th[t]
    /\ DirectoryFails(Server(t), Directory(t))

\* C31: when the remote listing of a directory fails during a scan,
\* scan_directory leaves the directory's stored file list and its
\* DirectoryMeta as they were.
C31_FailedListingKeepsCatalog ==
    [][\A t \in Threads :
          FailingScanStep(t)
          => /\ get_apk_files(store', Server(t), Directory(t))
                = get_apk_files(store, Server(t), Directory(t))
             /\ get_directory_meta(store', Server(t), Directory(t))
                = get_directory_meta(store, Server(t), Directory(t))]_vars

\* C32: scan_directory stores the new subdir_count in DirectoryMeta only
\* if the directory's file list in the store is the one it has just found.
C32_MetaOnlyAfterFiles ==
    [][\A t \in Threads :
          (/\ th[t].pc = "sd_setmeta"
           /\ th'[t] # th[t]
           /\ store' # store)
          => /\ HHas(store', FilesKey(Server(t), Directory(t)), S_files)
             /\ HGet(store', FilesKey(Server(t), Directory(t)), S_files) = th[t].apks]_vars

(***************************************************************************)
(* C33: what the stream of download_file_stream_smbclient has delivered is *)
(* at every moment a prefix of the content of the file, so that no byte is *)
(* delivered twice, also after a retry or the switch to the copy fallback. *)
(***************************************************************************)
C33_DeliveredIsPrefix ==
    strm.pc # "idle"
    => /\ Len(strm.delivered) <= Len(FileBytes(strm.path))
       /\ strm.delivered = SubSeq(FileBytes(strm.path), 1, Len(strm.delivered))

(***************************************************************************)
(* The handles the low-level API opens on a share.  download_file_stream   *)
(* opens the file when it is called and leaves the close to the finally    *)
(* clause of the generator it returns, which runs only once the generator  *)
(* has been started.  req.opens lists the handles opened since the server  *)
(* started, each with the call that opened it and whether it was closed.   *)
(* file_exists and get_file_info close their handle before they return and *)
(* the high-level API opens its file in a with block; they are not listed. *)
(***************************************************************************)
MaxOpens == 2

\* what may fail while a request of this part is served
OpenFaults == {f \in Faults : ~f.access /\ ~f.open}

\* SMBClient.download_file_stream called for a file: nothing opened when
\* create fails, a handle closed again when no size can be had, else a
\* handle left to the generator
LowLevelOpen(server, relative_path, by) ==
    IF ~file_exists(server, relative_path) THEN <<>>
    ELSE <<[by |-> by, closed |-> download_file_stream(server, relative_path).raised]>>

\* download_file without a Range header: the size probe, whose generator is
\* dropped, and the low-level stream handed to the response
DownloadOpens(st, server, path) ==
    IF download_file(st, server, path, <<>>).raised THEN <<>>
    ELSE (IF get_file_info(server, path).size <= 0 /\ stat_size(server, path) <= 0
          THEN LowLevelOpen(server, path, "probe") ELSE <<>>)
         \o (IF fault.config THEN LowLevelOpen(server, path, "stream") ELSE <<>>)

\* check_download_capability: `_, size = client.download_file_stream(path)`
CheckOpens(server, path) ==
    IF ServerMissing(server) \/ get_client(server) # "ok" \/ ~file_exists(server, path)
    THEN <<>>
    ELSE LowLevelOpen(server, path, "probe")

\* a client sends GET /api/download or GET /api/download/check
OpensRequest ==
    /\ req.pc = "idle"
    /\ Len(req.opens) < MaxOpens
    /\ MayDownload
    /\ \E endpoint \in {"/api/download", "/api/download/check"},
          server \in ServerSet, path \in ApiPaths :
          req' = [req EXCEPT !.pc = "run", !.endpoint = endpoint,
                             !.server = server, !.path = path]
    /\ fault' \in OpenFaults
    /\ UNCHANGED <<remote, store, scanning, scan_lock, th, changes, dl, search, handlers, strm, env>>

\* the handler runs and returns its response
OpensRun ==
    /\ req.pc = "run"
    /\ LET opened == IF req.endpoint = "/api/download"
                     THEN DownloadOpens(store, req.server, req.path)
                     ELSE CheckOpens(req.server, req.path)
       IN  /\ req' = [req EXCEPT
                         !.pc = IF \E i \in DOMAIN opened :
                                      opened[i].by = "stream" /\ ~opened[i].closed
                                THEN "streaming" ELSE "responded",
                         !.opens = @ \o opened]
           /\ store' = IF req.endpoint = "/api/download"
                       THEN download_file(store, req.server, req.path, <<>>).store
                       ELSE store
    /\ UNCHANGED <<remote, scanning, scan_lock, th, changes, dl, search, handlers, fault, strm, env>>

\* StreamingResponse iterates the generator of the low-level stream to its
\* end, to an exception or to the disconnect of the client: finally:
\* file_open.close()
ConsumeBody ==
    /\ req.pc = "streaming"
    /\ req' = [req EXCEPT !.pc = "responded",
                          !.opens[Len(req.opens)].closed = TRUE]
    /\ UNCHANGED <<remote, store, scanning, scan_lock, th, changes, dl, search, handlers, fault, strm, env>>

\* the response has been sent; the client of the share stays connected
OpensReturn ==
    /\ req.pc = "responded"
    /\ req' = [NoRequest EXCEPT !.opens = req.opens]
    /\ fault' = NoFault
    /\ UNCHANGED <<remote, store, scanning, scan_lock, th, changes, dl, search, handlers, strm, env>>

OpensStep ==
    \/ OpensRequest
    \/ OpensRun
    \/ ConsumeBody
    \/ OpensReturn

\* the server goes on with a request it has received: the handler runs, the
\* body is sent, the request ends
SpecOpens ==
    /\ InitSearch
    /\ [][OpensStep]_vars
    /\ []<>(req.pc # "run")
    /\ WF_vars(ConsumeBody \/ OpensReturn)

(***************************************************************************)
(* C34: every remote file handle opened while a download is handled is     *)
(* closed in the end, that of the size probe included.                     *)
(***************************************************************************)
C34_HandlesClosed ==
    \A i \in 1..(MaxOpens + 1) :
        (i \in DOMAIN req.opens /\ ~req.opens[i].closed)
        ~> (i \in DOMAIN req.opens /\ req.opens[i].closed)

(***************************************************************************)
(* Force scans of a share whose tree changed since it was catalogued: a    *)
(* top-level directory was removed or added with what it holds, or an APK  *)
(* was put into or taken from the share root or a directory.  The tree     *)
(* changes only while no scan runs.                                        *)
(***************************************************************************)
S_root_apk == <<"r","o","o","t",".","a","p","k">>

\* what may change below the scanned root of a share between two scans
TreeDirs(server) ==
    IF server = S_server_1 THEN {<<S_apks, S_AppB>>, <<S_apks, S_AppA, S_sub>>}
    ELSE {<<S_apks, S_AppC>>}

TreeFiles(server) ==
    IF server = S_server_1
    THEN {<<S_apks, S_release_apk>>, <<S_apks, S_AppA, S_debug_apk>>}
    ELSE {<<S_apks, S_AppC, S_debug_apk>>}

TreeChange ==
    /\ changes < MaxRemoteChanges
    /\ \A t \in Threads : th[t].pc = "idle"
    /\ changes' = changes + 1
    /\ \E server \in ServerSet :
          \/ \E p \in TreeDirs(server) :
                /\ p \in remote[server].dirs
                /\ remote' = [remote EXCEPT ![server] =
                                 [dirs |-> {q \in @.dirs : ~IsPrefix(p, q)},
                                  files |-> {q \in @.files : ~IsPrefix(p, q)}]]
          \/ \E f \in TreeFiles(server) :
                /\ f \in remote[server].files \/ SubSeq(f, 1, Len(f) - 1) \in remote[server].dirs
                /\ remote' = [remote EXCEPT ![server].files =
                                 IF f \in @ THEN @ \ {f} ELSE @ \cup {f}]
    /\ UNCHANGED <<store, scanning, scan_lock, th, dl, search, handlers, fault, strm, env, req>>

TreeStep == ScannerStep \/ TreeChange

SpecTree == InitSearch /\ [][TreeStep]_vars

\* the relative_path of the file at path `parts` below the scanned root
RECURSIVE RelativeName(_)
RelativeName(parts) ==
    IF parts = <<>> THEN <<>> ELSE <<BS>> \o Head(parts) \o RelativeName(Tail(parts))

\* the relative_paths of the APKs anywhere below the scanned root of a share
TreeApks(server) ==
    LET base == PathOf(BasePath(server))
    IN  {RelativeName(SubSeq(f, Len(base) + 1, Len(f))) :
            f \in {g \in remote[server].files : IsPrefix(base, g) /\ is_apk_file(Last(g))}}

\* the relative_paths of the records in the buckets of a share
CatalogPaths(server) ==
    {kr[2].relative_path : kr \in {x \in StoredRecords : x[1] \in KeysOf(store, server)}}

\* the shares a force scan that has returned went over
ForceScanned(t) ==
    IF th[t].pc # "done" THEN {}
    ELSE IF th[t].op = "force_scan_server" THEN {Server(t)}
    ELSE IF th[t].op = "force_scan_all" THEN ServerSet
    ELSE {}

(***************************************************************************)
(* C35: when a force scan that met no error and ran alone has returned,    *)
(* the relative_paths catalogued for a share it scanned are exactly those  *)
(* of the APKs anywhere in the tree of the share: no record is left of a   *)
(* removed top-level directory and no APK, also of the root, is missing.   *)
(***************************************************************************)
C35_CatalogEqualsTree ==
    \A t \in Threads : \A server \in ForceScanned(t) :
        CatalogPaths(server) = TreeApks(server)

(***************************************************************************)
(* C36: while a scan of a share runs, whichever way it was started, the    *)
(* scanning flag that get_scan_status reports is true, and the flag is     *)
(* false when no scan runs.                                                *)
(***************************************************************************)
C36_FlagTellsScanning ==
    /\ (\E t \in Threads : th[t].pc \in InScanServer) => scanning
    /\ scanning => \E t \in Threads : th[t].pc \in InScanServer \cup {"sas_clearflag"}

(***************************************************************************)
(* increment_download_count and update_file_md5 called on the catalog of   *)
(* the scanned shares: for a catalogued file, for a path no record has,    *)
(* for a directory without a bucket, and while the store cannot be         *)
(* reached.  req keeps the arguments of the last call.                     *)
(***************************************************************************)
\* a hash; like None, a value of the md5 field
S_d41d == "d41d"

FrameDirectories == {S_AppA, S_new}

\* the list of the bucket as the store holds it
ListOf(st, server, directory) ==
    IF HHas(st, FilesKey(server, directory), S_files)
    THEN HGet(st, FilesKey(server, directory), S_files)
    ELSE <<>>

CallIncrement ==
    /\ \E server \in ServerSet, directory \in FrameDirectories, path \in ApiPaths :
          /\ \A i \in 1..Len(ListOf(store, server, directory)) :
                ListOf(store, server, directory)[i].relative_path = path
                => ListOf(store, server, directory)[i].download_time < MaxDownloads
          /\ store' = increment_download_count(store, server, directory, path)
          /\ req' = [NoRequest EXCEPT !.pc = "called", !.endpoint = "download_time",
                                      !.server = server, !.directory = directory,
                                      !.path = path]
    /\ UNCHANGED <<remote, scanning, scan_lock, th, changes, dl, search, handlers, fault, strm, env>>

CallUpdateMd5 ==
    /\ \E server \in ServerSet, directory \in FrameDirectories, path \in ApiPaths :
          /\ store' = update_file_md5(store, server, directory, path, S_d41d)
          /\ req' = [NoRequest EXCEPT !.pc = "called", !.endpoint = "md5",
                                      !.server = server, !.directory = directory,
                                      !.path = path]
    /\ UNCHANGED <<remote, scanning, scan_lock, th, changes, dl, search, handlers, fault, strm, env>>

FrameStep == CallIncrement \/ CallUpdateMd5 \/ StoreFlap

SpecFrame == InitSearch /\ [][FrameStep]_vars

\* record b is record a but for the field the call is about
SameButField(a, b, field) ==
    \A f \in DOMAIN a : f # field => b[f] = a[f]

\* the call recorded in req' took store to store' changing nothing but the
\* targeted field of records with the path
FrameKept ==
    LET old == ListOf(store, req'.server, req'.directory)
        new == ListOf(store', req'.server, req'.directory)
    IN  /\ DOMAIN store' = DOMAIN store
        /\ \A key \in DOMAIN store :
              key # FilesKey(req'.server, req'.directory) => store'[key] = store[key]
        /\ Len(new) = Len(old)
        /\ \A i \in 1..Len(old) :
              IF old[i].relative_path = req'.path
              THEN SameButField(old[i], new[i], req'.endpoint)
              ELSE new[i] = old[i]

(***************************************************************************)
(* C37: a call of increment_download_count or update_file_md5 changes      *)
(* nothing in the store but the targeted field of the record with the      *)
(* path; when no record has the path, the directory has no bucket or the   *)
(* read fails, the keys and lists of the store stay as they were.          *)
(***************************************************************************)
C37_FrameOfUpdates ==
    [][(CallIncrement \/ CallUpdateMd5) => FrameKept]_vars

(***************************************************************************)
(* The remote file each streaming strategy opens for a request path, as    *)
(* its path on the share.  The high-level strategies open a UNC name, the  *)
(* low-level ones a name on the connected tree.                            *)
(***************************************************************************)
\* download_file_stream_smbclient and, through it, download_file_stream_with_skip
SmbclientFile(server, path) == UncPath(FullUncPath(server, path))

\* download_file_range_stream
RangeFile(server, path) == UncPath(RangeUncPath(server, path))

\* download_file_stream: Open(self.tree, f"{base_path}{relative_path}")
LowLevelFile(server, path) == PathOf(BasePath(server) \o path)

\* download_file_stream_simple: the path without its leading backslash
SimpleFile(server, path) ==
    PathOf(IF StartsWith(path, <<BS>>) THEN Tail(path) ELSE path)

\* the request paths: for every file of the shares, for one in a directory
\* that is on no share and for one in the root, the path with and without
\* the leading backslash
ResolvePaths ==
    LET with == {RelativeName(Tail(f)) : f \in InitRemote[S_server_1].files
                                             \cup InitRemote[S_server_2].files}
                \cup ApiPaths \cup {<<BS>> \o S_root_apk}
    IN  with \cup {Tail(p) : p \in with}

InitResolve ==
    /\ env = NoEnv
    /\ remote \in {InitRemote, AliasRemote}
    /\ store = ScanServers(<<>>, FILE_SERVERS)
    /\ scanning = FALSE
    /\ scan_lock = None
    /\ th = [t \in {"worker"} |-> IdleLocals]
    /\ changes = 0
    /\ dl = NoDownload
    /\ search = NoSearch
    /\ handlers = NoHandlers
    /\ fault = NoFault
    /\ strm = NoStream
    /\ req \in {[NoRequest EXCEPT !.server = server, !.path = path] :
                   server \in ServerSet, path \in ResolvePaths}

\* every strategy resolves the path of the request
Resolve ==
    /\ req.pc = "idle"
    /\ req' = [req EXCEPT !.pc = "resolved",
                          !.files = <<SmbclientFile(req.server, req.path),
                                      RangeFile(req.server, req.path),
                                      LowLevelFile(req.server, req.path),
                                      SimpleFile(req.server, req.path)>>]
    /\ UNCHANGED <<remote, store, scanning, scan_lock, th, changes, dl, search, handlers, fault, strm, env>>

SpecResolve == InitResolve /\ [][Resolve]_vars

(***************************************************************************)
(* C38: for a share configuration and a request path, with or without the  *)
(* leading backslash, every streaming strategy opens the same remote file. *)
(***************************************************************************)
C38_SameRemoteFile ==
    req.pc = "resolved" => \A i, j \in 1..Len(req.files) : req.files[i] = req.files[j]

(***************************************************************************)
(* skip_stream of download_file_stream_with_skip, resumed chunk by chunk.  *)
(* strm.file_stream holds the chunks the underlying stream has still to    *)
(* give, strm.sent the bytes it gave, strm.delivered what skip_stream      *)
(* yielded.                                                                *)
(***************************************************************************)
MaxStreamBytes == 4

Min(a, b) == IF a < b THEN a ELSE b

\* the first n bytes of the underlying file
StreamBytes(n) == [i \in 1..n |-> i]

\* every way of cutting a byte sequence into chunks, none empty
RECURSIVE Chunkings(_)
Chunkings(bytes) ==
    IF bytes = <<>> THEN {<<>>}
    ELSE UNION {{<<SubSeq(bytes, 1, k)>> \o rest :
                    rest \in Chunkings(SubSeq(bytes, k + 1, Len(bytes)))} :
                k \in 1..Len(bytes)}

\* faulty variant: a chunk that holds the start position is skipped whole
skip_in_chunk_WholeChunk(chunk, start, bytes_skipped) == Len(chunk)

\* skip_in_chunk = min(len(chunk), start - bytes_skipped)
skip_in_chunk(chunk, start, bytes_skipped) == Min(Len(chunk), start - bytes_skipped)

\* Python's chunk[a:a + n] for n > 0
Slice(chunk, a, n) == SubSeq(chunk, a + 1, Min(a + n, Len(chunk)))

\* one pass of the loop body over `chunk`: what is yielded, the counters,
\* and whether the loop is left
SkipChunk(r, chunk) ==
    IF r.bytes_skipped < r.start
    THEN LET skipped == skip_in_chunk(chunk, r.start, r.bytes_skipped)
             bytes_skipped == r.bytes_skipped + skipped
             bytes_to_serve == Min(Len(chunk) - skipped,
                                   (r.end - r.start + 1) - r.bytes_served)
             serves == bytes_skipped >= r.start /\ bytes_to_serve > 0
             bytes_served == IF serves THEN r.bytes_served + bytes_to_serve
                             ELSE r.bytes_served
         IN  [r EXCEPT !.bytes_skipped = bytes_skipped,
                       !.bytes_served = bytes_served,
                       !.delivered = IF serves
                                     THEN @ \o Slice(chunk, skipped, bytes_to_serve)
                                     ELSE @,
                       !.pc = IF bytes_skipped >= r.start
                                 /\ bytes_served >= r.end - r.start + 1
                              THEN "skip_done" ELSE "skip"]
    ELSE LET bytes_to_serve == Min(Len(chunk), (r.end - r.start + 1) - r.bytes_served)
             bytes_served == IF bytes_to_serve > 0 THEN r.bytes_served + bytes_to_serve
                             ELSE r.bytes_served
         IN  [r EXCEPT !.bytes_served = bytes_served,
                       !.delivered = IF bytes_to_serve > 0
                                     THEN @ \o Slice(chunk, 0, bytes_to_serve)
                                     ELSE @,
                       !.pc = IF bytes_served >= r.end - r.start + 1
                              THEN "skip_done" ELSE "skip"]

\* a stream of up to MaxStreamBytes bytes in some chunking, and a range
InitSkip ==
    /\ env = NoEnv
    /\ remote = InitRemote
    /\ store = <<>>
    /\ scanning = FALSE
    /\ scan_lock = None
    /\ th = [t \in {"worker"} |-> IdleLocals]
    /\ changes = 0
    /\ dl = NoDownload
    /\ search = NoSearch
    /\ handlers = NoHandlers
    /\ fault = NoFault
    /\ strm \in {[NoStream EXCEPT !.pc = "skip", !.file_stream = chunks,
                                  !.start = start, !.end = end] :
                    chunks \in UNION {Chunkings(StreamBytes(n)) : n \in 0..MaxStreamBytes},
                    start \in 0..MaxStreamBytes, end \in 0..MaxStreamBytes}
    /\ req = NoRequest

\* for chunk in file_stream: the next chunk is taken and the body run
SkipNext ==
    /\ strm.pc = "skip"
    /\ strm.file_stream # <<>>
    /\ strm' = [SkipChunk(strm, Head(strm.file_stream)) EXCEPT
                   !.file_stream = Tail(strm.file_stream),
                   !.sent = strm.sent \o Head(strm.file_stream)]
    /\ UNCHANGED <<remote, store, scanning, scan_lock, th, changes, dl, search, handlers, fault, env, req>>

\* the underlying stream is exhausted: the loop and the generator end
SkipExhausted ==
    /\ strm.pc = "skip"
    /\ strm.file_stream = <<>>
    /\ strm' = [strm EXCEPT !.pc = "skip_done"]
    /\ UNCHANGED <<remote, store, scanning, scan_lock, th, changes, dl, search, handlers, fault, env, req>>

SkipStep == SkipNext \/ SkipExhausted

SpecSkip == InitSkip /\ [][SkipStep]_vars

\* the bytes of a sequence of chunks
RECURSIVE FlatChunks(_)
FlatChunks(chunks) ==
    IF chunks = <<>> THEN <<>> ELSE Head(chunks) \o FlatChunks(Tail(chunks))

\* bytes start..end of a byte sequence, as far as it has them
BytesOf(bytes, start, end) ==
    IF start > Min(end, Len(bytes) - 1) THEN <<>>
    ELSE SubSeq(bytes, start + 1, Min(end, Len(bytes) - 1) + 1)

(***************************************************************************)
(* C39: whatever the chunking of the underlying stream, skip_stream        *)
(* delivers exactly the bytes start..end of what the underlying stream     *)
(* gives.                                                                  *)
(***************************************************************************)
C39_SkipDeliversRange ==
    strm.pc = "skip_done"
    => strm.delivered = BytesOf(strm.sent \o FlatChunks(strm.file_stream),
                                strm.start, strm.end)

\* two bytes were skipped and the two bytes of the range delivered, the
\* underlying stream having given four bytes
C39_Witness ==
    /\ strm.pc = "skip_done"
    /\ strm.start = 2
    /\ strm.end = 3
    /\ Len(strm.sent) = 4
    /\ strm.delivered = <<3, 4>>
    /\ strm.bytes_skipped = 2

(***************************************************************************)
(* The initial scan of a share whose top-level directories have any of     *)
(* these names, each holding one APK.                                      *)
(***************************************************************************)
TopNames == {S_AppA, S_AppB, S_meta}

InitTop ==
    /\ env = NoEnv
    /\ \E top \in (SUBSET TopNames) \ {{}}, f \in {S_release_apk, S_debug_apk} :
          remote = [InitRemote EXCEPT ![S_server_1] =
                       [dirs |-> {<<>>, <<S_apks>>} \cup {<<S_apks, d>> : d \in top},
                        files |-> {<<S_apks, d, f>> : d \in top}]]
    /\ store = <<>>
    /\ scanning = FALSE
    /\ scan_lock = None
    /\ th = [t \in {"initial"} |->
                [IdleLocals EXCEPT !.pc = "sas_check", !.op = "scan_all_servers"]]
    /\ changes = 0
    /\ dl = NoDownload
    /\ search = NoSearch
    /\ handlers = NoHandlers
    /\ fault = NoFault
    /\ strm = NoStream
    /\ req = NoRequest

SpecTop == InitTop /\ [][NamesStep]_vars

(***************************************************************************)
(* C40: the key under which the file list of a directory is stored is      *)
(* never the key of the share's directory metadata, whatever the directory *)
(* is called, 'meta' included.                                             *)
(***************************************************************************)
C40_FilesKeyIsNotMetaKey ==
    \A t \in Threads :
        th[t].pc \in {"sd_check", "sd_walk", "sd_setfiles", "sd_setmeta"}
        => FilesKey(Server(t), Directory(t)) # MetaKey(Server(t))

====
